---- MODULE Spec2Model ----
(***************************************************************************)
(* The note generation pipeline of obsidian-calendar-to-notes: NoteWriter  *)
(* (writeNote, writeNotes) over the VaultAdapter storage interface, with   *)
(* the services it calls: FrontmatterService, TemplateRenderer,            *)
(* FilenameGenerator and AttendeeFormatter.                                *)
(*                                                                         *)
(* A JavaScript string is a sequence of one-character strings, so that the *)
(* text functions are computed character by character as the code does.    *)
(***************************************************************************)
EXTENDS Integers, Sequences, FiniteSets, TLC

(***************************************************************************)
(* String primitives (String.prototype.* and the regex character classes)  *)
(***************************************************************************)
WhiteSpace == {" ", "\n", "\t"}

Digits == <<"0","1","2","3","4","5","6","7","8","9">>

LowerCase == <<"a","b","c","d","e","f","g","h","i","j","k","l","m","n","o","p","q","r","s","t","u","v","w","x","y","z">>

UpperCase == <<"A","B","C","D","E","F","G","H","I","J","K","L","M","N","O","P","Q","R","S","T","U","V","W","X","Y","Z">>

Range(s) == {s[i] : i \in 1..Len(s)}

DigitChars == Range(Digits)

WordChars == Range(LowerCase) \cup Range(UpperCase) \cup DigitChars \cup {"_"}

ILLEGAL_CHARS == {"/", "\\", ":", "*", "?", "\"", "<", ">", "|"}

Min(S) == CHOOSE x \in S : \A y \in S : x <= y

Max(S) == CHOOSE x \in S : \A y \in S : x >= y

\* p occurs in s at (1-based) index i
OccursAt(s, p, i) ==
    /\ i >= 1
    /\ i + Len(p) - 1 <= Len(s)
    /\ \A k \in 1..Len(p) : s[i + k - 1] = p[k]

StartsWith(s, p) == OccursAt(s, p, 1)

EndsWith(s, p) == Len(p) <= Len(s) /\ OccursAt(s, p, Len(s) - Len(p) + 1)

Includes(s, p) == \E i \in 1..(Len(s) + 1) : OccursAt(s, p, i)

\* first index >= from at which p occurs in s, 0 when there is none (JS: -1)
IndexOfFrom(s, p, from) ==
    LET hits == {i \in from..(Len(s) + 1) : OccursAt(s, p, i)}
    IN  IF hits = {} THEN 0 ELSE Min(hits)

IndexOf(s, p) == IndexOfFrom(s, p, 1)

LastIndexOf(s, p) ==
    LET hits == {i \in 1..(Len(s) + 1) : OccursAt(s, p, i)}
    IN  IF hits = {} THEN 0 ELSE Max(hits)

Trim(s) ==
    LET solid == {i \in 1..Len(s) : s[i] \notin WhiteSpace}
    IN  IF solid = {} THEN <<>> ELSE SubSeq(s, Min(solid), Max(solid))

RECURSIVE Split(_, _)
Split(s, sep) ==
    LET i == IndexOf(s, sep)
    IN  IF i = 0 THEN <<s>>
        ELSE <<SubSeq(s, 1, i - 1)>> \o Split(SubSeq(s, i + Len(sep), Len(s)), sep)

RECURSIVE Concat(_)
Concat(parts) ==
    IF parts = <<>> THEN <<>> ELSE Head(parts) \o Concat(Tail(parts))

RECURSIVE Join(_, _)
Join(parts, sep) ==
    IF parts = <<>> THEN <<>>
    ELSE IF Len(parts) = 1 THEN parts[1]
    ELSE parts[1] \o sep \o Join(Tail(parts), sep)

ToLowerChar(c) ==
    IF \E i \in 1..Len(UpperCase) : UpperCase[i] = c
    THEN LowerCase[CHOOSE i \in 1..Len(UpperCase) : UpperCase[i] = c]
    ELSE c

ToLowerCase(s) == [i \in 1..Len(s) |-> ToLowerChar(s[i])]

\* `${n}` for a number n >= 0
RECURSIVE NumToStr(_)
NumToStr(n) ==
    IF n < 10 THEN <<Digits[n + 1]>>
    ELSE NumToStr(n \div 10) \o <<Digits[(n % 10) + 1]>>

\* path.split('/').pop() || ''
LastSegment(path) ==
    LET i == LastIndexOf(path, <<"/">>)
    IN  IF i = 0 THEN path ELSE SubSeq(path, i + 1, Len(path))

(***************************************************************************)
(* FrontmatterService                                                      *)
(***************************************************************************)
KEY_ID == <<"c","a","l","e","n","d","a","r","E","v","e","n","t","I","d">>

KEY_START == <<"c","a","l","e","n","d","a","r","E","v","e","n","t","S","t","a","r","t">>

NullFrontmatter == [ok |-> FALSE, calendarEventId |-> <<>>, calendarEventStart |-> <<>>]

\* FRONTMATTER_REGEX = /^---\n([\s\S]*?)\n---/ : the lazy group ends at the
\* first "\n---" at or after the opening "---\n"
FRONTMATTER_REGEX(content) ==
    IF ~StartsWith(content, <<"-","-","-","\n">>) THEN [matched |-> FALSE, group |-> <<>>]
    ELSE LET close == IndexOfFrom(content, <<"\n","-","-","-">>, 5)
         IN  IF close = 0 THEN [matched |-> FALSE, group |-> <<>>]
             ELSE [matched |-> TRUE, group |-> SubSeq(content, 5, close - 1)]

\* Remove quotes if present
Unquote(value) ==
    IF \/ (StartsWith(value, <<"\"">>) /\ EndsWith(value, <<"\"">>))
       \/ (StartsWith(value, <<"'">>) /\ EndsWith(value, <<"'">>))
    THEN SubSeq(value, 2, Len(value) - 1)
    ELSE value

\* the key and the value of a line whose first colon is at colonIndex
LineKey(line, colonIndex) == Trim(SubSeq(line, 1, colonIndex - 1))

LineValue(line, colonIndex) == Unquote(Trim(SubSeq(line, colonIndex + 1, Len(line))))

\* the lines that assign fields[key]
Assigns(lines, key) ==
    {i \in 1..Len(lines) :
        \E colonIndex \in {IndexOf(lines[i], <<":">>)} :
            colonIndex # 0 /\ LineKey(lines[i], colonIndex) = key}

\* fields[key] after the loop over the lines: the last assignment wins;
\* <<>> stands for both undefined and '' (the code tests only falsiness)
LastAssigned(lines, hits) ==
    IF hits = {} THEN <<>>
    ELSE LineValue(lines[Max(hits)], IndexOf(lines[Max(hits)], <<":">>))

FieldOf(lines, key) == LastAssigned(lines, Assigns(lines, key))

\* Validate required fields
Validated(id, start) ==
    IF id = <<>> \/ start = <<>> THEN NullFrontmatter
    ELSE [ok |-> TRUE, calendarEventId |-> id, calendarEventStart |-> start]

ParseYaml(lines) == Validated(FieldOf(lines, KEY_ID), FieldOf(lines, KEY_START))

ParseMatch(match) ==
    IF ~match.matched \/ match.group = <<>> THEN NullFrontmatter
    ELSE ParseYaml(Split(match.group, <<"\n">>))

parse(content) ==
    IF content = <<>> THEN NullFrontmatter
    ELSE ParseMatch(FRONTMATTER_REGEX(content))

\* /^\d{4}-\d{2}-\d{2}T\d{2}:\d{2}:\d{2}/
IsISOTimestamp(value) ==
    /\ Len(value) >= 19
    /\ \A i \in {1, 2, 3, 4, 6, 7, 9, 10, 12, 13, 15, 16, 18, 19} :
          value[i] \in DigitChars
    /\ value[5] = "-" /\ value[8] = "-" /\ value[11] = "T"
    /\ value[14] = ":" /\ value[17] = ":"

RECURSIVE EscapeQuotes(_)
EscapeQuotes(value) ==
    IF value = <<>> THEN <<>>
    ELSE (IF Head(value) = "\"" THEN <<"\\", "\"">> ELSE <<Head(value)>>)
         \o EscapeQuotes(Tail(value))

formatValue(value) ==
    IF /\ ~IsISOTimestamp(value)
       /\ \E i \in 1..Len(value) : value[i] \in {":", "#", "'", "\""}
    THEN <<"\"">> \o EscapeQuotes(value) \o <<"\"">>
    ELSE value

generate(data) ==
    <<"-","-","-","\n","c","a","l","e","n","d","a","r","E","v","e","n","t","I","d",":"," ">> \o formatValue(data.calendarEventId)
    \o <<"\n","c","a","l","e","n","d","a","r","E","v","e","n","t","S","t","a","r","t",":"," ">> \o formatValue(data.calendarEventStart)
    \o <<"\n","-","-","-">>

prependToContent(frontmatter, body) == generate(frontmatter) \o <<"\n","\n">> \o body

\* a comparison of the start against the id
SameFrontmatter_IdTwice(parsed, target) ==
    /\ parsed.ok
    /\ parsed.calendarEventId = target.calendarEventId
    /\ parsed.calendarEventStart = target.calendarEventId

\* a comparison of the id alone
SameFrontmatter_IdOnly(parsed, target) ==
    /\ parsed.ok
    /\ parsed.calendarEventId = target.calendarEventId

SameFrontmatter(parsed, target) ==
    /\ parsed.ok
    /\ parsed.calendarEventId = target.calendarEventId
    /\ parsed.calendarEventStart = target.calendarEventStart

matches(content, target) == SameFrontmatter(parse(content), target)

(***************************************************************************)
(* TemplateRenderer                                                        *)
(***************************************************************************)
\* the names of TemplateVariables, in declaration order
VariableNames ==
    << <<"t","i","t","l","e">>, <<"d","a","t","e">>, <<"s","t","a","r","t","T","i","m","e">>, <<"e","n","d","T","i","m","e">>, <<"a","t","t","e","n","d","e","e","s">>,
       KEY_ID, KEY_START >>

\* a match of VARIABLE_PATTERN = /\{\{(\w+)\}\}/ at index i of template:
\* the length of the name, 0 when the pattern does not match at i
PlaceholderAt(template, i) ==
    IF ~OccursAt(template, <<"{","{">>, i) THEN 0
    ELSE LET stop == {j \in (i + 2)..(Len(template) + 1) :
                         j = Len(template) + 1 \/ template[j] \notin WordChars}
             end  == Min(stop)
         IN  IF end > i + 2 /\ OccursAt(template, <<"}","}">>, end)
             THEN end - (i + 2)
             ELSE 0

\* the methods a plain object inherits from Object.prototype, each by the
\* name of the function it holds
ObjectPrototypeMethods ==
    { <<<<"c","o","n","s","t","r","u","c","t","o","r">>, <<"O","b","j","e","c","t">>>>,
      <<<<"t","o","S","t","r","i","n","g">>, <<"t","o","S","t","r","i","n","g">>>>,
      <<<<"v","a","l","u","e","O","f">>, <<"v","a","l","u","e","O","f">>>>,
      <<<<"h","a","s","O","w","n","P","r","o","p","e","r","t","y">>, <<"h","a","s","O","w","n","P","r","o","p","e","r","t","y">>>>,
      <<<<"i","s","P","r","o","t","o","t","y","p","e","O","f">>, <<"i","s","P","r","o","t","o","t","y","p","e","O","f">>>>,
      <<<<"t","o","L","o","c","a","l","e","S","t","r","i","n","g">>, <<"t","o","L","o","c","a","l","e","S","t","r","i","n","g">>>> }

\* String(f) of a built-in function f
NativeFunctionText(name) == <<"f","u","n","c","t","i","o","n"," ">> \o name \o <<"(",")"," ","{"," ","[","n","a","t","i","v","e"," ","c","o","d","e","]"," ","}">>

\* String(variables[varName]) for a name that is not an own property of
\* variables: the inherited property, and '' when there is none
InheritedValue(varName) ==
    IF \E method \in ObjectPrototypeMethods : method[1] = varName
    THEN NativeFunctionText((CHOOSE method \in ObjectPrototypeMethods : method[1] = varName)[2])
    ELSE IF varName = <<"_","_","p","r","o","t","o","_","_">> THEN <<"[","o","b","j","e","c","t"," ","O","b","j","e","c","t","]">>
    ELSE <<>>

\* the replacement of {{varName}}: variables[varName], and '' when that is
\* undefined
VariableValue(variables, varName) ==
    IF \E k \in 1..Len(VariableNames) : VariableNames[k] = varName
    THEN variables[CHOOSE k \in 1..Len(VariableNames) : VariableNames[k] = varName]
    ELSE InheritedValue(varName)

\* the replacement from index i on, n being the length of the name of the
\* placeholder at i (0 when there is none)
RECURSIVE RenderFrom(_, _, _)
RenderAt(template, variables, i, n) ==
    IF n = 0
    THEN <<template[i]>> \o RenderFrom(template, variables, i + 1)
    ELSE VariableValue(variables, SubSeq(template, i + 2, i + 1 + n))
         \o RenderFrom(template, variables, i + n + 4)

RenderFrom(template, variables, i) ==
    IF i > Len(template) THEN <<>>
    ELSE RenderAt(template, variables, i, PlaceholderAt(template, i))

render(template, variables) == RenderFrom(template, variables, 1)

(***************************************************************************)
(* FilenameGenerator                                                       *)
(***************************************************************************)
FALLBACK_TITLE == <<"U","n","t","i","t","l","e","d"," ","m","e","e","t","i","n","g">>

MAX_FILENAME_LENGTH == 255

EXTENSION == <<".","m","d">>

\* .replace(ILLEGAL_CHARS, '')
RemoveIllegal(input) == SelectSeq(input, LAMBDA c : c \notin ILLEGAL_CHARS)

\* .replace(/\s+/g, ' '): the first character of a run of whitespace becomes
\* a blank and the rest of the run goes
CollapseWhitespace(input) ==
    SelectSeq([i \in 1..Len(input) |->
                  IF input[i] \notin WhiteSpace THEN input[i]
                  ELSE IF i > 1 /\ input[i - 1] \in WhiteSpace THEN "gone"
                  ELSE " "],
              LAMBDA c : c # "gone")

\* the ends trimmed before the illegal characters are removed
sanitize_TrimFirst(input) == CollapseWhitespace(RemoveIllegal(Trim(input)))

sanitize(input) == Trim(CollapseWhitespace(RemoveIllegal(input)))

\* sanitizedTitle || FALLBACK_TITLE
OrFallback(sanitizedTitle) ==
    IF sanitizedTitle = <<>> THEN FALLBACK_TITLE ELSE sanitizedTitle

FinalTitle(title) == OrFallback(sanitize(title))

\* finalTitle.substring(0, maxTitleLength) when it is longer
Truncated(finalTitle, maxTitleLength) ==
    IF Len(finalTitle) > maxTitleLength
    THEN SubSeq(finalTitle, 1, maxTitleLength)
    ELSE finalTitle

\* a title budget that leaves the extension out
Composed_NoExtension(prefix, finalTitle) ==
    prefix
    \o Truncated(finalTitle, MAX_FILENAME_LENGTH - Len(prefix))
    \o EXTENSION

Composed(prefix, finalTitle) ==
    prefix
    \o Truncated(finalTitle, MAX_FILENAME_LENGTH - Len(prefix) - Len(EXTENSION))
    \o EXTENSION

FilenameGenerate(date, title) == Composed(date \o <<" ","-"," ">>, FinalTitle(title))

generateWithSuffix(date, title, suffix) ==
    date \o <<" ","-"," ">> \o FinalTitle(title) \o <<" ","(">> \o NumToStr(suffix) \o <<")">>
    \o EXTENSION

(***************************************************************************)
(* AttendeeFormatter.  An attendee is [email, displayName, hasDisplayName,  *)
(* isOrganizer]; hasDisplayName = FALSE is displayName === undefined.      *)
(***************************************************************************)
getDisplayName(attendee) ==
    IF attendee.hasDisplayName /\ Trim(attendee.displayName) # <<>>
    THEN attendee.displayName
    ELSE LET atIndex == IndexOf(attendee.email, <<"@">>)
         IN  IF atIndex = 0 THEN attendee.email
             ELSE SubSeq(attendee.email, 1, atIndex - 1)

\* attendees.find(a => a.isOrganizer)?.email ; <<>> is undefined or ''
OrganizerEmail(attendees) ==
    LET flagged == {i \in 1..Len(attendees) : attendees[i].isOrganizer}
    IN  IF flagged = {} THEN <<>> ELSE attendees[Min(flagged)].email

\* the loop of formatAttendees from index i, seen being the emails kept so far
RECURSIVE FilterAttendees(_, _, _, _)
FilterAttendee(attendees, organizerEmail, seen, i, email) ==
    IF email \in seen
    THEN FilterAttendees(attendees, organizerEmail, seen, i + 1)
    ELSE IF organizerEmail # <<>> /\ email = ToLowerCase(organizerEmail)
    THEN FilterAttendees(attendees, organizerEmail, seen, i + 1)
    ELSE <<attendees[i]>>
         \o FilterAttendees(attendees, organizerEmail, seen \cup {email}, i + 1)

FilterAttendees(attendees, organizerEmail, seen, i) ==
    IF i > Len(attendees) THEN <<>>
    ELSE FilterAttendee(attendees, organizerEmail, seen, i,
                        ToLowerCase(attendees[i].email))

WikiLinks(filtered) ==
    IF filtered = <<>> THEN <<>>
    ELSE Join([i \in 1..Len(filtered) |->
                  <<"[","[">> \o getDisplayName(filtered[i]) \o <<"]","]">>],
              <<","," ">>)

formatAttendees(attendees) ==
    WikiLinks(FilterAttendees(attendees, OrganizerEmail(attendees), {}, 1))

(***************************************************************************)
(* VaultAdapter: the storage behind NoteWriter.  A vault is a sequence of  *)
(* [path, content] files in listing order (creation order).                *)
(***************************************************************************)
Paths(vault) == {vault[k].path : k \in 1..Len(vault)}

exists(vault, path) == path \in Paths(vault)

read(vault, path) ==
    IF exists(vault, path)
    THEN vault[CHOOSE k \in 1..Len(vault) : vault[k].path = path].content
    ELSE <<>>

\* the direct children of folder, in listing order
listFiles(vault, folder) ==
    LET prefix == folder \o <<"/">>
    IN  SelectSeq(vault, LAMBDA f : StartsWith(f.path, prefix)
                           /\ IndexOfFrom(f.path, <<"/">>, Len(prefix) + 1) = 0)

create(vault, path, content) == Append(vault, [path |-> path, content |-> content])

modify(vault, path, content) ==
    [k \in 1..Len(vault) |->
        IF vault[k].path = path THEN [path |-> path, content |-> content]
        ELSE vault[k]]

(***************************************************************************)
(* NoteWriter                                                              *)
(***************************************************************************)
NoPath == <<>>

REASON_NOTE_EXISTS == <<"N","o","t","e"," ","f","o","r"," ","t","h","i","s"," ","e","v","e","n","t"," ","a","l","r","e","a","d","y"," ","e","x","i","s","t","s">>

REASON_FILE_EXISTS == <<"F","i","l","e"," ","w","i","t","h"," ","t","h","i","s"," ","n","a","m","e"," ","a","l","r","e","a","d","y"," ","e","x","i","s","t","s">>

REASON_UNKNOWN == <<"U","n","k","n","o","w","n"," ","r","e","a","s","o","n">>

Frontmatter(event) ==
    [calendarEventId |-> event.id, calendarEventStart |-> event.startISO]

\* a scan that finds no note, whatever the folder holds
findExistingNote_None(vault, folderPath, target) == NoPath

\* the path of the first .md file of the folder whose frontmatter matches
findExistingNote(vault, folderPath, target) ==
    LET files == listFiles(vault, folderPath)
        hits  == {k \in 1..Len(files) :
                     /\ EndsWith(files[k].path, EXTENSION)
                     /\ matches(read(vault, files[k].path), target)}
    IN  IF hits = {} THEN NoPath ELSE files[Min(hits)].path

Variables(event, frontmatter) ==
    << event.title, event.date, event.startTime, event.endTime,
       formatAttendees(event.attendees),
       frontmatter.calendarEventId, frontmatter.calendarEventStart >>

\* a test that asks for both identity variables
hasFrontmatterVars_Both(template) ==
    /\ Includes(template, <<"{","{","c","a","l","e","n","d","a","r","E","v","e","n","t","I","d","}","}">>)
    /\ Includes(template, <<"{","{","c","a","l","e","n","d","a","r","E","v","e","n","t","S","t","a","r","t","}","}">>)

hasFrontmatterVars(template) ==
    \/ Includes(template, <<"{","{","c","a","l","e","n","d","a","r","E","v","e","n","t","I","d","}","}">>)
    \/ Includes(template, <<"{","{","c","a","l","e","n","d","a","r","E","v","e","n","t","S","t","a","r","t","}","}">>)

\* the rendered template, behind the frontmatter unless the template has it
WithFrontmatter(template, frontmatter, rendered) ==
    IF hasFrontmatterVars(template) THEN rendered
    ELSE prependToContent(frontmatter, rendered)

generateContent(event, template, frontmatter) ==
    WithFrontmatter(template, frontmatter,
                    render(template, Variables(event, frontmatter)))

\* an if in place of the while: one probe, whether or not its path is free
ProbeSuffix_Once(vault, event, folderPath, filename, suffix) ==
    IF exists(vault, folderPath \o <<"/">> \o filename)
    THEN generateWithSuffix(event.date, event.title, suffix)
    ELSE filename

\* while (this.vault.exists(filePath)) { filename = generateWithSuffix(...) ; suffix++ }
RECURSIVE ProbeSuffix(_, _, _, _, _)
ProbeSuffix(vault, event, folderPath, filename, suffix) ==
    IF exists(vault, folderPath \o <<"/">> \o filename)
    THEN ProbeSuffix(vault, event, folderPath,
                     generateWithSuffix(event.date, event.title, suffix), suffix + 1)
    ELSE filename

Skipped(filename, reason) ==
    [created |-> FALSE, skipped |-> TRUE, filename |-> filename, reason |-> reason,
     op |-> "none", path |-> NoPath, content |-> <<>>]

\* a result that says created and skipped at once
Written_AlsoSkipped(op, filename, path, content) ==
    [created |-> TRUE, skipped |-> TRUE, filename |-> filename, reason |-> <<>>,
     op |-> op, path |-> path, content |-> content]

Written(op, filename, path, content) ==
    [created |-> TRUE, skipped |-> FALSE, filename |-> filename, reason |-> <<>>,
     op |-> op, path |-> path, content |-> content]

Created(folderPath, filename, content) ==
    Written("create", filename, folderPath \o <<"/">> \o filename, content)

\* a deduplication check that skips whenever the policy is not overwrite
Resolve_MatchSkips(vault, event, folderPath, conflictPolicy, existingNotePath, filename, content) ==
    IF existingNotePath # NoPath /\ conflictPolicy # "overwrite"
    THEN Skipped(LastSegment(existingNotePath), REASON_NOTE_EXISTS)
    ELSE IF existingNotePath # NoPath
    THEN Written("modify", LastSegment(existingNotePath), existingNotePath, content)
    ELSE IF exists(vault, folderPath \o <<"/">> \o filename) /\ conflictPolicy = "skip"
    THEN Skipped(filename, REASON_FILE_EXISTS)
    ELSE IF exists(vault, folderPath \o <<"/">> \o filename) /\ conflictPolicy = "overwrite"
    THEN Written("modify", filename, folderPath \o <<"/">> \o filename, content)
    ELSE Created(folderPath, ProbeSuffix(vault, event, folderPath, filename, 1), content)

\* a deduplication check that overwrites whenever the policy is not skip
Resolve_MatchOverwrites(vault, event, folderPath, conflictPolicy, existingNotePath, filename, content) ==
    IF existingNotePath # NoPath /\ conflictPolicy = "skip"
    THEN Skipped(LastSegment(existingNotePath), REASON_NOTE_EXISTS)
    ELSE IF existingNotePath # NoPath
    THEN Written("modify", LastSegment(existingNotePath), existingNotePath, content)
    ELSE IF exists(vault, folderPath \o <<"/">> \o filename) /\ conflictPolicy = "skip"
    THEN Skipped(filename, REASON_FILE_EXISTS)
    ELSE IF exists(vault, folderPath \o <<"/">> \o filename) /\ conflictPolicy = "overwrite"
    THEN Written("modify", filename, folderPath \o <<"/">> \o filename, content)
    ELSE Created(folderPath, ProbeSuffix(vault, event, folderPath, filename, 1), content)

\* an overwrite that writes the generated filename instead of the matched note
Resolve_OverwriteByName(vault, event, folderPath, conflictPolicy, existingNotePath, filename, content) ==
    IF existingNotePath # NoPath /\ conflictPolicy = "skip"
    THEN Skipped(LastSegment(existingNotePath), REASON_NOTE_EXISTS)
    ELSE IF exists(vault, folderPath \o <<"/">> \o filename) /\ conflictPolicy = "skip"
    THEN Skipped(filename, REASON_FILE_EXISTS)
    ELSE IF exists(vault, folderPath \o <<"/">> \o filename) /\ conflictPolicy = "overwrite"
    THEN Written("modify", filename, folderPath \o <<"/">> \o filename, content)
    ELSE Created(folderPath, ProbeSuffix(vault, event, folderPath, filename, 1), content)

\* writeNote from the deduplication check on: existingNotePath is what
\* findExistingNote returned, filename what FilenameGenerator.generate does
Resolve(vault, event, folderPath, conflictPolicy, existingNotePath, filename, content) ==
    IF existingNotePath # NoPath /\ conflictPolicy = "skip"
    THEN Skipped(LastSegment(existingNotePath), REASON_NOTE_EXISTS)
    ELSE IF existingNotePath # NoPath /\ conflictPolicy = "overwrite"
    THEN Written("modify", LastSegment(existingNotePath), existingNotePath, content)
    ELSE IF exists(vault, folderPath \o <<"/">> \o filename) /\ conflictPolicy = "skip"
    THEN Skipped(filename, REASON_FILE_EXISTS)
    ELSE IF exists(vault, folderPath \o <<"/">> \o filename) /\ conflictPolicy = "overwrite"
    THEN Written("modify", filename, folderPath \o <<"/">> \o filename, content)
    ELSE Created(folderPath, ProbeSuffix(vault, event, folderPath, filename, 1), content)

\* writeNote up to its storage call: the result it returns once the call
\* resolves, and the call (op, path, content) it awaits
writeNote(vault, event, template, folderPath, conflictPolicy) ==
    Resolve(vault, event, folderPath, conflictPolicy,
            findExistingNote(vault, folderPath, Frontmatter(event)),
            FilenameGenerate(event.date, event.title),
            generateContent(event, template, Frontmatter(event)))

(***************************************************************************)
(* Inputs of writeNotes: the events, templates, policies and folders the   *)
(* runs are drawn from.                                                    *)
(***************************************************************************)
MaxEvents == 2

MaxRuns == 2

FolderPath == <<"N","o","t","e","s">>

Alice == [email |-> <<"a","l","i","c","e","@","x",".","c","o","m">>, displayName |-> <<"A","l","i","c","e">>,
          hasDisplayName |-> TRUE, isOrganizer |-> TRUE]

Bob == [email |-> <<"b","o","b","@","x",".","c","o","m">>, displayName |-> <<>>,
        hasDisplayName |-> FALSE, isOrganizer |-> FALSE]

CalendarEvent(id, title, date, startTime, startISO) ==
    [id |-> id, title |-> title, date |-> date, startTime |-> startTime,
     endTime |-> <<>>, startISO |-> startISO, attendees |-> <<Alice, Bob>>]

\* 1: a timed event; 2: another occurrence of the same recurring event on the
\* same day; 3: an occurrence on the next day; 4: another event; 5: the
\* occurrence of 1 under an edited title; 6: an all-day event
Events ==
    << CalendarEvent(<<"e","1">>, <<"S","t","a","n","d","u","p">>, <<"2","0","2","4","-","0","3","-","1","5">>, <<"0","9",":","0","0">>, <<"2","0","2","4","-","0","3","-","1","5","T","0","9",":","0","0",":","0","0","Z">>),
       CalendarEvent(<<"e","1">>, <<"S","t","a","n","d","u","p">>, <<"2","0","2","4","-","0","3","-","1","5">>, <<"1","4",":","0","0">>, <<"2","0","2","4","-","0","3","-","1","5","T","1","4",":","0","0",":","0","0","Z">>),
       CalendarEvent(<<"e","1">>, <<"S","t","a","n","d","u","p">>, <<"2","0","2","4","-","0","3","-","1","6">>, <<"0","9",":","0","0">>, <<"2","0","2","4","-","0","3","-","1","6","T","0","9",":","0","0",":","0","0","Z">>),
       CalendarEvent(<<"e","2">>, <<"P","l","a","n",":"," ","Q","2","?">>, <<"2","0","2","4","-","0","3","-","1","5">>, <<"0","9",":","0","0">>, <<"2","0","2","4","-","0","3","-","1","5","T","0","9",":","0","0",":","0","0","Z">>),
       CalendarEvent(<<"e","1">>, <<"S","y","n","c">>, <<"2","0","2","4","-","0","3","-","1","5">>, <<"0","9",":","0","0">>, <<"2","0","2","4","-","0","3","-","1","5","T","0","9",":","0","0",":","0","0","Z">>),
       CalendarEvent(<<"e","3">>, <<" "," ">>, <<"2","0","2","4","-","0","3","-","1","5">>, <<>>, <<"2","0","2","4","-","0","3","-","1","5">>) >>

EventKeys == 1..Len(Events)

\* 1: a body without identity variables; 2: a template with its own identity
\* block; 3: a template that mentions an identity variable in its body only
Templates ==
    << <<"#"," ","{","{","t","i","t","l","e","}","}","\n","{","{","a","t","t","e","n","d","e","e","s","}","}"," ","{","{","n","o","p","e","}","}">>,
       <<"-","-","-","\n","c","a","l","e","n","d","a","r","E","v","e","n","t","I","d",":"," ","{","{","c","a","l","e","n","d","a","r","E","v","e","n","t","I","d","}","}","\n","c","a","l","e","n","d","a","r","E","v","e","n","t","S","t","a","r","t",":"," ","{","{","c","a","l","e","n","d","a","r","E","v","e","n","t","S","t","a","r","t","}","}","\n","-","-","-","\n","{","{","d","a","t","e","}","}">>,
       <<"I","d"," ","{","{","c","a","l","e","n","d","a","r","E","v","e","n","t","I","d","}","}">> >>

TemplateKeys == 1..Len(Templates)

ConflictPolicies == {"skip", "overwrite", "suffix"}

File(name, content) == [path |-> FolderPath \o <<"/">> \o name, content |-> content]

NoteOf(e) == prependToContent(Frontmatter(Events[e]), <<"#"," ","o","l","d">>)

\* the folders a run can start from: empty; holding the note of event 1
\* under its generated name; holding it renamed to the name event 4
\* generates; holding unrelated files at the names event 1 generates, and a
\* non-note file carrying the identity of event 1
InitialVaults ==
    { <<>>,
      << File(<<"2","0","2","4","-","0","3","-","1","5"," ","-"," ","S","t","a","n","d","u","p",".","m","d">>, NoteOf(1)) >>,
      << File(<<"2","0","2","4","-","0","3","-","1","5"," ","-"," ","P","l","a","n"," ","Q","2",".","m","d">>, NoteOf(1)) >>,
      << File(<<"2","0","2","4","-","0","3","-","1","5"," ","-"," ","S","t","a","n","d","u","p",".","m","d">>, <<"t","e","x","t">>),
         File(<<"2","0","2","4","-","0","3","-","1","5"," ","-"," ","S","t","a","n","d","u","p"," ","(","1",")",".","m","d">>, <<"-","-","-","\n","t","e","x","t">>),
         File(<<"e","1",".","t","x","t">>, NoteOf(1)) >>,
      << File(<<"a",".","m","d">>, NoteOf(3)), File(<<"b",".","m","d">>, NoteOf(3)) >> }

\* the event lists of length at most MaxEvents
RECURSIVE EventLists(_)
EventLists(n) ==
    IF n = 0 THEN {<<>>}
    ELSE LET shorter == EventLists(n - 1)
         IN  shorter \cup {Append(l, e) : l \in shorter, e \in EventKeys}

(***************************************************************************)
(* State                                                                   *)
(***************************************************************************)
VARIABLES
    vault,           \* the files of the storage
    events,          \* writeNotes' events (keys into Events)
    template,        \* writeNotes' template (a key into Templates)
    conflictPolicy,  \* writeNotes' conflictPolicy
    pc,              \* "loop", "await" (a storage call is in flight), "done", "rejected"
    index,           \* the position of the for loop in events
    pending,         \* the writeNote result whose storage call is in flight
    created,         \* writeNotes' created
    skipped,         \* writeNotes' skipped
    run,             \* the number of the writeNotes run
    initial,         \* the vault when this run began
    last,            \* the latest writeNote call: its event index, the vault it saw, its result
    calls,           \* the storage calls of this run: [op, path, index, ok]
    order,           \* for each entry of created and of skipped, the index of its event
    fncall,          \* a call of a service function: [fn, arg, ret, returned, origin]
    modal,           \* the plugin's settings and the CalendarModal it opened
    oauth            \* the OAuthService: token storage, code verifier, clock, current call

vars == <<vault, events, template, conflictPolicy, pc, index, pending, created,
          skipped, run, initial, last, calls, order, fncall, modal, oauth>>

\* no service function is being called on its own
NoFnCall == [fn |-> "none", arg |-> <<>>, ret |-> <<>>, returned |-> FALSE, origin |-> <<>>]

\* no modal has been asked for
NoModal == [stage |-> "none"]

\* no OAuthService is at work
NoOAuth == [call |-> "none"]

NoResult == Skipped(<<>>, <<>>)

NoCall == [index |-> 0, before |-> <<>>, result |-> NoResult]

Init ==
    /\ vault \in InitialVaults
    /\ events \in EventLists(MaxEvents)
    /\ template \in TemplateKeys
    /\ conflictPolicy \in ConflictPolicies
    /\ pc = "loop"
    /\ index = 1
    /\ pending = NoResult
    /\ created = <<>>
    /\ skipped = <<>>
    /\ run = 1
    /\ initial = vault
    /\ last = NoCall
    /\ calls = <<>>
    /\ order = [created |-> <<>>, skipped |-> <<>>]
    /\ fncall = NoFnCall
    /\ modal = NoModal
    /\ oauth = NoOAuth

(***************************************************************************)
(* writeNotes                                                              *)
(***************************************************************************)
\* unshift in place of push
PushResult_Prepend(result, k) ==
    IF result.created
    THEN /\ created' = <<result.filename>> \o created
         /\ skipped' = skipped
         /\ order' = [order EXCEPT !.created = <<k>> \o @]
    ELSE IF result.skipped
    THEN /\ skipped' = <<[filename |-> result.filename,
                          reason |-> IF result.reason = <<>> THEN REASON_UNKNOWN
                                     ELSE result.reason]>> \o skipped
         /\ created' = created
         /\ order' = [order EXCEPT !.skipped = <<k>> \o @]
    ELSE UNCHANGED <<created, skipped, order>>

\* result.created ? created.push(filename) : result.skipped ? skipped.push(...)
PushResult(result, k) ==
    IF result.created
    THEN /\ created' = Append(created, result.filename)
         /\ skipped' = skipped
         /\ order' = [order EXCEPT !.created = Append(@, k)]
    ELSE IF result.skipped
    THEN /\ skipped' = Append(skipped,
                [filename |-> result.filename,
                 reason |-> IF result.reason = <<>> THEN REASON_UNKNOWN
                            ELSE result.reason])
         /\ created' = created
         /\ order' = [order EXCEPT !.skipped = Append(@, k)]
    ELSE UNCHANGED <<created, skipped, order>>

\* a writeNote whose create / modify is not awaited
Dispatch_NoAwait(result) ==
    /\ last' = [index |-> index, before |-> vault, result |-> result]
    /\ PushResult(result, index)
    /\ index' = index + 1
    /\ pending' = IF result.op = "none" THEN pending ELSE result
    /\ pc' = pc

\* what follows writeNote's synchronous part: its return when it made no
\* storage call, its await otherwise
Dispatch(result) ==
    /\ last' = [index |-> index, before |-> vault, result |-> result]
    /\ IF result.op = "none"
       THEN /\ PushResult(result, index)
            /\ index' = index + 1
            /\ UNCHANGED <<pc, pending>>
       ELSE /\ pending' = result
            /\ pc' = "await"
            /\ UNCHANGED <<index, created, skipped, order>>

\* one iteration of the loop up to writeNote's await, or to its return when
\* writeNote returns without a storage call
WriteNoteCall ==
    /\ pc = "loop"
    /\ index <= Len(events)
    /\ Dispatch(writeNote(vault, Events[events[index]], Templates[template],
                          FolderPath, conflictPolicy))
    /\ UNCHANGED <<vault, events, template, conflictPolicy, run, initial, calls>>
    /\ UNCHANGED <<fncall, modal, oauth>>

\* create fails if the path exists, modify fails if it is absent
VaultAccepts(call) ==
    IF call.op = "create" THEN ~exists(vault, call.path) ELSE exists(vault, call.path)

\* the awaited vault.create / vault.modify resolves; writeNote returns and
\* writeNotes records the result
VaultResolves ==
    /\ pc = "await"
    /\ VaultAccepts(pending)
    /\ vault' = IF pending.op = "create"
                THEN create(vault, pending.path, pending.content)
                ELSE modify(vault, pending.path, pending.content)
    /\ calls' = Append(calls, [op |-> pending.op, path |-> pending.path,
                               index |-> index, ok |-> TRUE])
    /\ PushResult(pending, index)
    /\ index' = index + 1
    /\ pc' = "loop"
    /\ pending' = NoResult
    /\ UNCHANGED <<events, template, conflictPolicy, run, initial, last>>
    /\ UNCHANGED <<fncall, modal, oauth>>

\* a loop that catches the rejection, records a skip and goes on
VaultRejects_Caught ==
    /\ pc = "await"
    /\ calls' = Append(calls, [op |-> pending.op, path |-> pending.path,
                               index |-> index, ok |-> FALSE])
    /\ skipped' = Append(skipped, [filename |-> pending.filename,
                                   reason |-> REASON_UNKNOWN])
    /\ order' = [order EXCEPT !.skipped = Append(@, index)]
    /\ index' = index + 1
    /\ pc' = "loop"
    /\ pending' = NoResult
    /\ UNCHANGED <<vault, events, template, conflictPolicy, created,
                   run, initial, last>>
    /\ UNCHANGED <<fncall, modal, oauth>>

\* the awaited storage call rejects: the rejection propagates through
\* writeNote and writeNotes, which have no catch
VaultRejects ==
    /\ pc = "await"
    /\ calls' = Append(calls, [op |-> pending.op, path |-> pending.path,
                               index |-> index, ok |-> FALSE])
    /\ pc' = "rejected"
    /\ pending' = NoResult
    /\ UNCHANGED <<vault, events, template, conflictPolicy, index, created,
                   skipped, run, initial, last, order>>
    /\ UNCHANGED <<fncall, modal, oauth>>

\* return { created, skipped }
WriteNotesReturn ==
    /\ pc = "loop"
    /\ index > Len(events)
    /\ pc' = "done"
    /\ UNCHANGED <<vault, events, template, conflictPolicy, index, pending,
                   created, skipped, run, initial, last, calls, order>>
    /\ UNCHANGED <<fncall, modal, oauth>>

\* writeNotes is called again with the same events, template, folder and policy
Rerun ==
    /\ pc = "done"
    /\ run < MaxRuns
    /\ run' = run + 1
    /\ pc' = "loop"
    /\ index' = 1
    /\ created' = <<>>
    /\ skipped' = <<>>
    /\ calls' = <<>>
    /\ order' = [created |-> <<>>, skipped |-> <<>>]
    /\ last' = NoCall
    /\ initial' = vault
    /\ UNCHANGED <<vault, events, template, conflictPolicy, pending>>
    /\ UNCHANGED <<fncall, modal, oauth>>

Next ==
    \/ WriteNoteCall
    \/ VaultResolves
    \/ VaultRejects
    \/ WriteNotesReturn
    \/ Rerun

Spec == Init /\ [][Next]_vars

(***************************************************************************)
(* The services called on their own: a call is drawn from bounded inputs   *)
(* and the function is applied to it.  writeNotes is not running.          *)
(***************************************************************************)
WriterIdle ==
    /\ vault = <<>>
    /\ events = <<>>
    /\ template = 1
    /\ conflictPolicy = "skip"
    /\ pc = "idle"
    /\ index = 1
    /\ pending = NoResult
    /\ created = <<>>
    /\ skipped = <<>>
    /\ run = 1
    /\ initial = <<>>
    /\ last = NoCall
    /\ calls = <<>>
    /\ order = [created |-> <<>>, skipped |-> <<>>]

writerVars == <<vault, events, template, conflictPolicy, pc, index, pending,
                created, skipped, run, initial, last, calls, order>>

FnCall(fn, arg) ==
    [fn |-> fn, arg |-> arg, ret |-> <<>>, returned |-> FALSE, origin |-> <<>>]

\* the call returns ret
Returns(ret) ==
    /\ fncall' = [fncall EXCEPT !.ret = ret, !.returned = TRUE]
    /\ UNCHANGED <<writerVars, modal, oauth>>

\* the strings of length 1..n over an alphabet
RECURSIVE Strings(_, _)
Strings(alphabet, n) ==
    IF n = 0 THEN {<<>>}
    ELSE LET shorter == Strings(alphabet, n - 1)
         IN  shorter \cup {Append(s, c) : s \in shorter, c \in alphabet}

(***************************************************************************)
(* FrontmatterService on its own                                           *)
(***************************************************************************)
MaxValueLen == 2

\* the characters formatValue and parse treat specially, and a plain one
ValueAlphabet == {"a", ":", "#", "'", "\"", " "}

\* single-line values that are not empty
Values == Strings(ValueAlphabet, MaxValueLen) \ {<<>>}

Starts == {<<"2","0","2","4","-","0","3","-","1","5","T","0","9",":","0","0",":","0","0","Z">>, <<"2","0","2","4","-","0","3","-","1","5">>}

Identities ==
    {[calendarEventId |-> id, calendarEventStart |-> start] : id \in Values, start \in Starts}
    \cup {[calendarEventId |-> <<"e","1">>, calendarEventStart |-> start] : start \in Values}

Target == [calendarEventId |-> <<"e","1">>, calendarEventStart |-> <<"2","0","2","4","-","0","3","-","1","5","T","0","9",":","0","0",":","0","0","Z">>]

QuotedTarget == [calendarEventId |-> <<"a",":","b">>, calendarEventStart |-> <<"2","0","2","4","-","0","3","-","1","5">>]

Case(kind, content, target) == [kind |-> kind, content |-> content, target |-> target]

\* note texts by what they hold of the target's identity
MatchCases ==
    { Case("exact", generate(Target), Target),
      Case("exact", prependToContent(Target, <<"#"," ","S","t","a","n","d","u","p">>), Target),
      Case("exact", <<"-","-","-","\n","c","a","l","e","n","d","a","r","E","v","e","n","t","S","t","a","r","t",":"," ","2","0","2","4","-","0","3","-","1","5","T","0","9",":","0","0",":","0","0","Z","\n","t","a","g","s",":"," ","x","\n","c","a","l","e","n","d","a","r","E","v","e","n","t","I","d",":"," ","'","e","1","'","\n","-","-","-","\n">>, Target),
      Case("exact", <<"-","-","-","\n","c","a","l","e","n","d","a","r","E","v","e","n","t","I","d",":"," ","e","2","\n","c","a","l","e","n","d","a","r","E","v","e","n","t","I","d",":"," ","e","1","\n","c","a","l","e","n","d","a","r","E","v","e","n","t","S","t","a","r","t",":"," ","\"","2","0","2","4","-","0","3","-","1","5","T","0","9",":","0","0",":","0","0","Z","\"","\n","-","-","-">>, Target),
      Case("exact", prependToContent(QuotedTarget, <<>>), QuotedTarget),
      Case("no block", <<>>, Target),
      Case("no block", <<"#"," ","S","t","a","n","d","u","p">>, Target),
      Case("no block", <<"#"," ","S","t","a","n","d","u","p","\n">> \o generate(Target), Target),
      Case("no block", <<" ">> \o generate(Target), Target),
      Case("no block", <<"c","a","l","e","n","d","a","r","E","v","e","n","t","I","d",":"," ","e","1","\n","c","a","l","e","n","d","a","r","E","v","e","n","t","S","t","a","r","t",":"," ","2","0","2","4","-","0","3","-","1","5","T","0","9",":","0","0",":","0","0","Z">>, Target),
      Case("unterminated", <<"-","-","-","\n","c","a","l","e","n","d","a","r","E","v","e","n","t","I","d",":"," ","e","1","\n","c","a","l","e","n","d","a","r","E","v","e","n","t","S","t","a","r","t",":"," ","2","0","2","4","-","0","3","-","1","5","T","0","9",":","0","0",":","0","0","Z","\n">>, Target),
      Case("unterminated", <<"-","-","-","\n","c","a","l","e","n","d","a","r","E","v","e","n","t","I","d",":"," ","e","1","\n","c","a","l","e","n","d","a","r","E","v","e","n","t","S","t","a","r","t",":"," ","2","0","2","4","-","0","3","-","1","5","T","0","9",":","0","0",":","0","0","Z","\n","-","-">>, Target),
      Case("unterminated", <<"-","-","-","\n","c","a","l","e","n","d","a","r","E","v","e","n","t","I","d",":"," ","e","1","\n","c","a","l","e","n","d","a","r","E","v","e","n","t","S","t","a","r","t",":"," ","2","0","2","4","-","0","3","-","1","5","T","0","9",":","0","0",":","0","0","Z"," ","-","-","-">>, Target),
      Case("field missing", <<"-","-","-","\n","c","a","l","e","n","d","a","r","E","v","e","n","t","I","d",":"," ","e","1","\n","-","-","-">>, Target),
      Case("field missing", <<"-","-","-","\n","c","a","l","e","n","d","a","r","E","v","e","n","t","S","t","a","r","t",":"," ","2","0","2","4","-","0","3","-","1","5","T","0","9",":","0","0",":","0","0","Z","\n","-","-","-">>, Target),
      Case("field missing", <<"-","-","-","\n","c","a","l","e","n","d","a","r","E","v","e","n","t","I","d",":","\n","c","a","l","e","n","d","a","r","E","v","e","n","t","S","t","a","r","t",":"," ","2","0","2","4","-","0","3","-","1","5","T","0","9",":","0","0",":","0","0","Z","\n","-","-","-">>, Target),
      Case("field missing", <<"-","-","-","\n","c","a","l","e","n","d","a","r","E","v","e","n","t","I","d"," ","e","1","\n","c","a","l","e","n","d","a","r","E","v","e","n","t","S","t","a","r","t",":"," ","2","0","2","4","-","0","3","-","1","5","T","0","9",":","0","0",":","0","0","Z","\n","-","-","-">>, Target),
      Case("field missing", <<"-","-","-","\n","\n","-","-","-">>, Target),
      Case("field altered", generate([Target EXCEPT !.calendarEventId = <<"e","2">>]), Target),
      Case("field altered", generate([Target EXCEPT !.calendarEventId = <<"e","1","1">>]), Target),
      Case("field altered", generate([Target EXCEPT !.calendarEventId = <<"E","1">>]), Target),
      Case("field altered", generate([Target EXCEPT !.calendarEventStart = <<"2","0","2","4","-","0","3","-","1","5","T","0","9",":","0","0",":","0","0","+","0","0",":","0","0">>]), Target),
      Case("field altered", generate([Target EXCEPT !.calendarEventStart = <<"2","0","2","4","-","0","3","-","1","6","T","0","9",":","0","0",":","0","0","Z">>]), Target),
      Case("field altered", generate([Target EXCEPT !.calendarEventStart = <<"2","0","2","4","-","0","3","-","1","5">>]), Target),
      Case("field altered", <<"-","-","-","\n","c","a","l","e","n","d","a","r","E","v","e","n","t","I","d",":"," ","e","1","\n","c","a","l","e","n","d","a","r","E","v","e","n","t","I","d",":"," ","e","2","\n","c","a","l","e","n","d","a","r","E","v","e","n","t","S","t","a","r","t",":"," ","2","0","2","4","-","0","3","-","1","5","T","0","9",":","0","0",":","0","0","Z","\n","-","-","-">>, Target),
      Case("field altered", generate(Target), QuotedTarget) }

InitFrontmatter ==
    /\ WriterIdle
    /\ modal = NoModal
    /\ oauth = NoOAuth
    /\ fncall \in {FnCall("generate", identity) : identity \in Identities}
                  \cup {FnCall("matches", case) : case \in MatchCases}

\* generate(data) returns the block
GenerateCall ==
    /\ fncall.fn = "generate" /\ ~fncall.returned
    /\ Returns(generate(fncall.arg))

\* parse(content) on a block generate returned
ParseCall ==
    /\ fncall.fn = "generate" /\ fncall.returned
    /\ fncall' = [fn |-> "parse", arg |-> fncall.ret, ret |-> parse(fncall.ret),
                  returned |-> TRUE, origin |-> fncall.arg]
    /\ UNCHANGED <<writerVars, modal, oauth>>

\* matches(content, target) returns
MatchesCall ==
    /\ fncall.fn = "matches" /\ ~fncall.returned
    /\ Returns(matches(fncall.arg.content, fncall.arg.target))

NextFrontmatter ==
    \/ GenerateCall
    \/ ParseCall
    \/ MatchesCall

SpecFrontmatter == InitFrontmatter /\ [][NextFrontmatter]_vars

(***************************************************************************)
(* AttendeeFormatter on its own                                            *)
(***************************************************************************)
MaxAttendees == 3

Attendee(email, displayName, hasDisplayName, isOrganizer) ==
    [email |-> email, displayName |-> displayName,
     hasDisplayName |-> hasDisplayName, isOrganizer |-> isOrganizer]

\* 1: the organizer; 2: the organizer's email in another case, not flagged;
\* 3: an attendee without display name; 4: the same email in another case;
\* 5: an organizer whose email is empty (mapAttendees: attendee.email || '');
\* 6: a second attendee flagged as organizer
AttendeePool ==
    << Attendee(<<"a","l","@","x">>, <<"A","l","i","c","e">>, TRUE, TRUE),
       Attendee(<<"A","L","@","x">>, <<"A","l">>, TRUE, FALSE),
       Attendee(<<"b","o","b","@","x">>, <<>>, FALSE, FALSE),
       Attendee(<<"B","o","b","@","x">>, <<"B","o","b","b","y">>, TRUE, FALSE),
       Attendee(<<>>, <<"O","l","g","a">>, TRUE, TRUE),
       Attendee(<<"c","y","@","x">>, <<"C","a","r","o","l">>, TRUE, TRUE) >>

\* the attendee lists of length at most n
RECURSIVE AttendeeLists(_)
AttendeeLists(n) ==
    IF n = 0 THEN {<<>>}
    ELSE LET shorter == AttendeeLists(n - 1)
         IN  shorter \cup {Append(l, AttendeePool[a]) : l \in shorter,
                                                        a \in 1..Len(AttendeePool)}

\* attendees for getDisplayName: no name, an empty or blank name, a name with
\* blanks around it, a plain name; emails with one '@', none, two, and ''
NamedAttendees ==
    {Attendee(email, name.value, name.defined, FALSE) :
        email \in {<<"a","l","@","x">>, <<"a","l">>, <<"a","@","b","@","c">>, <<"@","x">>, <<>>},
        name \in {[defined |-> FALSE, value |-> <<>>],
                  [defined |-> TRUE, value |-> <<>>],
                  [defined |-> TRUE, value |-> <<" "," ">>],
                  [defined |-> TRUE, value |-> <<" ","A","l","i","c","e"," ">>],
                  [defined |-> TRUE, value |-> <<"A","l"," ","S","m","i","t","h">>]}}

InitAttendees ==
    /\ WriterIdle
    /\ modal = NoModal
    /\ oauth = NoOAuth
    /\ fncall \in {FnCall("formatAttendees", attendees) :
                      attendees \in AttendeeLists(MaxAttendees)}
                  \cup {FnCall("getDisplayName", attendee) :
                          attendee \in NamedAttendees}

\* formatAttendees(attendees) returns
FormatAttendeesCall ==
    /\ fncall.fn = "formatAttendees" /\ ~fncall.returned
    /\ Returns(formatAttendees(fncall.arg))

\* getDisplayName(attendee) returns
GetDisplayNameCall ==
    /\ fncall.fn = "getDisplayName" /\ ~fncall.returned
    /\ Returns(getDisplayName(fncall.arg))

NextAttendees == FormatAttendeesCall \/ GetDisplayNameCall

SpecAttendees == InitAttendees /\ [][NextAttendees]_vars

(***************************************************************************)
(* TemplateRenderer on its own.  A template is put together from parts:    *)
(* literal text and placeholders.                                          *)
(***************************************************************************)
MaxParts == 3

Text(text) == [kind |-> "text", text |-> text]

Placeholder(name) == [kind |-> "placeholder", text |-> name]

\* literal texts, none of which, alone or next to another part, reads as a
\* placeholder; supplied names, an unknown name and inherited names
TemplateParts ==
    { Text(<<"a"," ">>), Text(<<"{">>), Text(<<"}","}"," ">>), Text(<<"{","{"," ","x"," ","}","}","\n">>), Text(<<"{","{","}","}">>),
      Placeholder(<<"t","i","t","l","e">>), Placeholder(<<"c","a","l","e","n","d","a","r","E","v","e","n","t","I","d">>),
      Placeholder(<<"n","o","p","e">>), Placeholder(<<"c","o","n","s","t","r","u","c","t","o","r">>), Placeholder(<<"_","_","p","r","o","t","o","_","_">>) }

\* the sequences of at most n parts
RECURSIVE PartLists(_)
PartLists(n) ==
    IF n = 0 THEN {<<>>}
    ELSE LET shorter == PartLists(n - 1)
         IN  shorter \cup {Append(l, part) : l \in shorter, part \in TemplateParts}

\* the template text of a sequence of parts
TemplateOf(parts) ==
    Concat([i \in 1..Len(parts) |->
               IF parts[i].kind = "text" THEN parts[i].text
               ELSE <<"{","{">> \o parts[i].text \o <<"}","}">>])

\* the variables of event 1
SampleVariables == Variables(Events[1], Frontmatter(Events[1]))

InitRenderer ==
    /\ WriterIdle
    /\ modal = NoModal
    /\ oauth = NoOAuth
    /\ fncall \in {FnCall("render", [parts |-> parts, template |-> TemplateOf(parts),
                                     variables |-> SampleVariables]) :
                      parts \in PartLists(MaxParts)}

\* render(template, variables) returns
RenderCall ==
    /\ fncall.fn = "render" /\ ~fncall.returned
    /\ Returns(render(fncall.arg.template, fncall.arg.variables))

NextRenderer == RenderCall

SpecRenderer == InitRenderer /\ [][NextRenderer]_vars

(***************************************************************************)
(* FilenameGenerator on its own                                            *)
(***************************************************************************)
MaxExcess == 3

\* the character c, n times
Repeat(c, n) == [i \in 1..n |-> c]

\* the longest date that leaves room for ' - ' and the extension
LongestFittingDate == MAX_FILENAME_LENGTH - Len(<<" ","-"," ">>) - Len(EXTENSION)

\* dates as mapEvent hands them over: a local date, the '' of an event without
\* start, the date of an unparsable instant, and raw start.date strings of
\* other lengths
Dates ==
    {<<"2","0","2","4","-","0","3","-","1","5">>, <<>>, <<"N","a","N","-","N","a","N","-","N","a","N">>,
     Repeat("9", LongestFittingDate), Repeat("9", LongestFittingDate + 1)}

\* title lengths: short ones, and those around the longest title that fits
\* behind a date
TitleLengths ==
    (0..3) \cup ((MAX_FILENAME_LENGTH - 20)..(MAX_FILENAME_LENGTH - 16 + MaxExcess))
           \cup ((MAX_FILENAME_LENGTH - 6)..(MAX_FILENAME_LENGTH - 6 + MaxExcess))

\* titles of one repeated character: a letter, an illegal character or a
\* blank; behind nothing, or behind a word and a blank (so that an illegal or
\* blank tail is sanitized away)
Titles ==
    {head \o Repeat(c, n) : head \in {<<>>, <<"Q","2"," ">>}, c \in {"a", "?", " "},
                                n \in TitleLengths}

\* the longest input of sanitize
MaxInputLen == 4

\* inputs of sanitize: a letter, whitespace of three kinds, illegal characters
SanitizeInputs == Strings({"a", " ", "\t", "\n", "/", "?"}, MaxInputLen)

InitFilename ==
    /\ WriterIdle
    /\ modal = NoModal
    /\ oauth = NoOAuth
    /\ fncall \in {FnCall("generate", [date |-> date, title |-> title]) :
                      date \in Dates, title \in Titles}
                  \cup {FnCall("sanitize", input) : input \in SanitizeInputs}

\* FilenameGenerator.generate(date, title) returns
FilenameGenerateCall ==
    /\ fncall.fn = "generate" /\ ~fncall.returned
    /\ Returns(FilenameGenerate(fncall.arg.date, fncall.arg.title))

\* sanitize(input) returns
SanitizeCall ==
    /\ fncall.fn = "sanitize" /\ ~fncall.returned
    /\ Returns(sanitize(fncall.arg))

\* sanitize is called on what sanitize returned
SanitizeAgainCall ==
    /\ fncall.fn = "sanitize" /\ fncall.returned
    /\ fncall' = [fn |-> "sanitize again", arg |-> fncall.ret,
                  ret |-> sanitize(fncall.ret), returned |-> TRUE,
                  origin |-> fncall.arg]
    /\ UNCHANGED <<writerVars, modal, oauth>>

NextFilename == FilenameGenerateCall \/ SanitizeCall \/ SanitizeAgainCall

SpecFilename == InitFilename /\ [][NextFilename]_vars


(***************************************************************************)
(* The plugin's entry point and the modal.  openCalendarModal guards the   *)
(* modal; in the modal the user fetches events, selects some and clicks    *)
(* "Generate notes".  generateNotes is asynchronous: its first part runs   *)
(* up to the read of the template, its second part up to writeNotes, its   *)
(* third part after writeNotes.  writeNotes itself is counted here, not    *)
(* run: NoteWriter is constructed nowhere else.                            *)
(***************************************************************************)
\* clicks on "Generate notes" in one behaviour
MaxClicks == 2

\* settings.templateNotePath when it is configured
TemplatePath == "Templates/Meeting.md"

\* the lists of events a fetch can return (ids; two instances may share one)
FetchedEvents == {<<>>, <<"e1">>, <<"e1", "e2">>, <<"e1", "e1">>}

\* the plugin before the folder menu is used: no modal
ClosedModal(authenticated, clientReady, templateNotePath, templateExists) ==
    [stage |-> "closed",
     authenticated |-> authenticated,
     clientReady |-> clientReady,
     templateNotePath |-> templateNotePath,
     templateExists |-> templateExists,
     events |-> <<>>,
     selectedEventIds |-> {},
     checked |-> {},
     selectedRows |-> {},
     disabled |-> TRUE,
     statusText |-> "",
     handler |-> "none",
     notice |-> "",
     clicks |-> 0,
     reading |-> 0,
     writing |-> 0,
     writeNotesCalls |-> 0,
     closing |-> FALSE]

InitModal ==
    /\ WriterIdle
    /\ fncall = NoFnCall
    /\ oauth = NoOAuth
    /\ modal \in {ClosedModal(a, c, p, x) : a \in BOOLEAN, c \in BOOLEAN,
                                            p \in {"", TemplatePath}, x \in BOOLEAN}

\* a handler has run: the modal's new fields, the writer untouched
ModalStep(handler, next) ==
    /\ modal' = [next EXCEPT !.handler = handler]
    /\ UNCHANGED <<writerVars, fncall, oauth>>

Notice(m, message) == [m EXCEPT !.notice = message]

\* the guards of openCalendarModal, in order; "" when the modal may open
OpenRefusal(m) ==
    IF ~m.authenticated THEN "Please connect to calendar in settings first"
    ELSE IF m.templateNotePath = "" THEN "Please configure a template note path in settings first"
    ELSE IF ~m.clientReady THEN "Calendar client not initialized"
    ELSE ""

\* new CalendarModal(...), modal.open(): fresh fields, the button disabled
Opened(m) ==
    [m EXCEPT !.stage = "open", !.events = <<>>, !.selectedEventIds = {},
              !.checked = {}, !.disabled = TRUE, !.statusText = "", !.closing = FALSE]

openCalendarModal ==
    /\ modal.stage = "closed"
    /\ modal.reading = 0 /\ modal.writing = 0
    /\ ModalStep("openCalendarModal",
                 IF OpenRefusal(modal) # ""
                 THEN Notice(modal, OpenRefusal(modal))
                 ELSE Opened(modal))

\* the settings tab stores a new template path
SetTemplateNotePath ==
    \E value \in {"", TemplatePath} :
        /\ value # modal.templateNotePath
        /\ ModalStep("settings", [modal EXCEPT !.templateNotePath = value])

\* the file at the template path is created or deleted in the vault
TemplateFileChanges ==
    \E present \in BOOLEAN :
        /\ present # modal.templateExists
        /\ ModalStep("vault", [modal EXCEPT !.templateExists = present])

\* generateBtnEl.disabled = selectedEventIds.size === 0
updateGenerateButton(m) == [m EXCEPT !.disabled = (m.selectedEventIds = {})]

\* fetchEvents: the list and the selection are replaced, the rows are
\* rendered anew with their boxes unchecked
fetchEvents ==
    /\ modal.stage = "open"
    /\ \E fetched \in FetchedEvents :
          ModalStep("fetchEvents",
                    updateGenerateButton(
                        [modal EXCEPT !.events = fetched, !.selectedEventIds = {},
                                      !.checked = {}, !.statusText = "Found"]))

EventIds(m) == {m.events[i] : i \in 1..Len(m.events)}

\* the rows whose event id is selected
SelectedRows(m) == {row \in 1..Len(m.events) : m.events[row] \in m.selectedEventIds}

\* renderEventList: checkbox.checked = selectedEventIds.has(event.id)
renderEventList(m) == [m EXCEPT !.checked = SelectedRows(m)]

\* the checkbox of a row changes, by itself or through its label: the box
\* flips, and the id of its event is added or deleted
Toggled(m, row) ==
    IF row \in m.checked
    THEN [m EXCEPT !.checked = @ \ {row}, !.selectedEventIds = @ \ {m.events[row]}]
    ELSE [m EXCEPT !.checked = @ \cup {row}, !.selectedEventIds = @ \cup {m.events[row]}]

\* "Select all" and "Select none": the set is replaced, the list rendered anew
SelectAllOrNone(m, all) ==
    renderEventList([m EXCEPT !.selectedEventIds = IF all THEN EventIds(m) ELSE {}])

\* a checkbox, a label, "Select all" or "Select none"
SelectionChanges ==
    /\ modal.stage = "open"
    /\ modal.events # <<>>
    /\ \E selection \in {Toggled(modal, row) : row \in 1..Len(modal.events)}
                        \cup {SelectAllOrNone(modal, all) : all \in BOOLEAN} :
          ModalStep("select", updateGenerateButton(selection))

\* events.filter(e => selectedEventIds.has(e.id))
SelectedEvents(m) == SelectSeq(m.events, LAMBDA id : id \in m.selectedEventIds)

\* the guards without the look-up of the template file
GenerateRefusal_PathOnly(m) ==
    IF SelectedEvents(m) = <<>> THEN "No events selected"
    ELSE IF m.templateNotePath = "" THEN "Please configure a template note path in settings"
    ELSE ""

\* the guards of generateNotes, in order; "" when the run may start
GenerateRefusal(m) ==
    IF SelectedEvents(m) = <<>> THEN "No events selected"
    ELSE IF m.templateNotePath = "" THEN "Please configure a template note path in settings"
    ELSE IF ~m.templateExists THEN "Template file not found"
    ELSE ""

\* the button is disabled and the read of the template is awaited;
\* selectedRows are the rows of the events this run will pass to writeNotes
RunStarted(m) ==
    [m EXCEPT !.statusText = "Generating notes...", !.disabled = TRUE,
              !.selectedRows = SelectedRows(m), !.reading = m.reading + 1]

\* a click on "Generate notes": generateNotes up to its first await
generateNotes ==
    /\ modal.stage = "open"
    /\ ~modal.disabled
    /\ modal.clicks < MaxClicks
    /\ ModalStep("generateNotes",
                 IF GenerateRefusal(modal) # ""
                 THEN Notice([modal EXCEPT !.clicks = modal.clicks + 1],
                             GenerateRefusal(modal))
                 ELSE RunStarted([modal EXCEPT !.clicks = modal.clicks + 1]))

\* the catch block: status, notice, button enabled again
RunFailed(m) ==
    Notice([m EXCEPT !.statusText = "Error", !.disabled = FALSE],
           "Failed to generate notes")

\* vault.read resolved: new NoteWriter, writeNotes invoked and awaited
TemplateRead ==
    /\ modal.reading > 0
    /\ ModalStep("writeNotes",
                 [modal EXCEPT !.reading = modal.reading - 1,
                               !.writing = modal.writing + 1,
                               !.writeNotesCalls = modal.writeNotesCalls + 1])

\* vault.read rejected
TemplateReadRejects ==
    /\ modal.reading > 0
    /\ ModalStep("catch", RunFailed([modal EXCEPT !.reading = modal.reading - 1]))

\* writeNotes resolved: summary, onComplete, the close is scheduled
WriteNotesResolves ==
    /\ modal.writing > 0
    /\ ModalStep("summary",
                 Notice([modal EXCEPT !.writing = modal.writing - 1,
                                      !.statusText = "Done!", !.closing = TRUE],
                        "Created"))

\* writeNotes rejected
WriteNotesRejects ==
    /\ modal.writing > 0
    /\ ModalStep("catch", RunFailed([modal EXCEPT !.writing = modal.writing - 1]))

\* setTimeout(() => this.close(), 1500), or the user closes the modal
\* while no run is under way
ModalCloses ==
    /\ modal.stage = "open"
    /\ modal.reading = 0 /\ modal.writing = 0
    /\ ModalStep("close", [modal EXCEPT !.stage = "closed", !.closing = FALSE])

NextModal ==
    \/ openCalendarModal
    \/ SetTemplateNotePath
    \/ TemplateFileChanges
    \/ fetchEvents
    \/ SelectionChanges
    \/ generateNotes
    \/ TemplateRead
    \/ TemplateReadRejects
    \/ WriteNotesResolves
    \/ WriteNotesRejects
    \/ ModalCloses

SpecModal == InitModal /\ [][NextModal]_vars

(***************************************************************************)
(* EventMapper.  A raw event is a GoogleCalendarEvent: start and end are   *)
(* objects whose fields may be missing, as may summary, attendees and      *)
(* organizer.  An optional field is [defined, value].  The local time zone *)
(* of the machine is an input of the call.                                 *)
(***************************************************************************)
undefined == [defined |-> FALSE, value |-> <<>>]

Some(value) == [defined |-> TRUE, value |-> value]

\* !field for an optional string: undefined and '' are falsy
Falsy(field) == ~field.defined \/ field.value = <<>>

\* field || fallback
OrElse(field, fallback) == IF Falsy(field) THEN fallback ELSE field.value

EVENT_FALLBACK_TITLE == <<"U","n","t","i","t","l","e","d"," ","e","v","e","n","t">>

\* minutes east of UTC of the machine's time zone
LocalOffsets == {0, 60, -600}

DigitValue(c) == CHOOSE d \in 0..9 : Digits[d + 1] = c

AreDigits(s, positions) == \A i \in positions : s[i] \in DigitChars

\* the two-digit number at s[i], s[i + 1]
Num2(s, i) == 10 * DigitValue(s[i]) + DigitValue(s[i + 1])

\* YYYY-MM-DDTHH:mm:ss followed by Z or by +HH:mm / -HH:mm
IsInstantText(s) ==
    /\ Len(s) \in {20, 25}
    /\ AreDigits(s, {1, 2, 3, 4, 6, 7, 9, 10, 12, 13, 15, 16, 18, 19})
    /\ s[5] = "-" /\ s[8] = "-" /\ s[11] = "T" /\ s[14] = ":" /\ s[17] = ":"
    /\ IF Len(s) = 20 THEN s[20] = "Z"
       ELSE /\ s[20] \in {"+", "-"}
            /\ AreDigits(s, {21, 22, 24, 25})
            /\ s[23] = ":"

IsLeapYear(year) == year % 4 = 0 /\ (year % 100 # 0 \/ year % 400 = 0)

DaysInMonth(year, month) ==
    IF month = 2 THEN (IF IsLeapYear(year) THEN 29 ELSE 28)
    ELSE IF month \in {4, 6, 9, 11} THEN 30
    ELSE 31

\* minutes east of UTC the text itself names
ZoneOffset(s) ==
    IF Len(s) = 20 THEN 0
    ELSE (IF s[20] = "-" THEN -1 ELSE 1) * (60 * Num2(s, 21) + Num2(s, 24))

InvalidDate == [valid |-> FALSE, year |-> 0, month |-> 0, day |-> 0, minute |-> 0]

\* the fields of a well-formed text, as written in its own zone
InstantOf(s, year, month, day, hour, minute) ==
    IF /\ month \in 1..12 /\ day \in 1..DaysInMonth(year, month)
       /\ hour \in 0..23 /\ minute \in 0..59 /\ Num2(s, 18) \in 0..59
    THEN [valid |-> TRUE, year |-> year, month |-> month, day |-> day,
          minute |-> 60 * hour + minute - ZoneOffset(s)]
    ELSE InvalidDate

\* new Date(text): the instant, its day and minute of day in UTC (the minute
\* may lie outside the day until the zone is applied); Invalid Date otherwise
NewDate(s) ==
    IF IsInstantText(s)
    THEN InstantOf(s, 100 * Num2(s, 1) + Num2(s, 3), Num2(s, 6), Num2(s, 9),
                   Num2(s, 12), Num2(s, 15))
    ELSE InvalidDate

NextDay(d) ==
    IF d.day < DaysInMonth(d.year, d.month) THEN [d EXCEPT !.day = d.day + 1]
    ELSE IF d.month < 12 THEN [d EXCEPT !.day = 1, !.month = d.month + 1]
    ELSE [d EXCEPT !.day = 1, !.month = 1, !.year = d.year + 1]

PreviousDay(d) ==
    IF d.day > 1 THEN [d EXCEPT !.day = d.day - 1]
    ELSE IF d.month > 1
         THEN [d EXCEPT !.day = DaysInMonth(d.year, d.month - 1), !.month = d.month - 1]
    ELSE [d EXCEPT !.day = 31, !.month = 12, !.year = d.year - 1]

RECURSIVE Normalized(_)
\* the minute brought into the day, the day moved along
Normalized(d) ==
    IF d.minute < 0 THEN Normalized(PreviousDay([d EXCEPT !.minute = d.minute + 1440]))
    ELSE IF d.minute >= 1440 THEN Normalized(NextDay([d EXCEPT !.minute = d.minute - 1440]))
    ELSE d

\* getFullYear, getMonth, getDate, getHours, getMinutes: the local fields
LocalFields(date, offset) == Normalized([date EXCEPT !.minute = date.minute + offset])

\* String(n).padStart(2, '0')
PadStart2(n) == IF n < 10 THEN <<"0">> \o NumToStr(n) ELSE NumToStr(n)

DateText(d) == NumToStr(d.year) \o <<"-">> \o PadStart2(d.month) \o <<"-">> \o PadStart2(d.day)

TimeText(d) == PadStart2(d.minute \div 60) \o <<":">> \o PadStart2(d.minute % 60)

\* TimeRangeService.formatDateLocal; every getter of Invalid Date is NaN
formatDateLocal(date, offset) ==
    IF date.valid THEN DateText(LocalFields(date, offset)) ELSE <<"N","a","N","-","N","a","N","-","N","a","N">>

\* TimeRangeService.formatTimeLocal
formatTimeLocal(date, offset) ==
    IF date.valid THEN TimeText(LocalFields(date, offset)) ELSE <<"N","a","N",":","N","a","N">>

\* a GoogleAttendee becomes an Attendee
MappedAttendee(attendee) ==
    [email |-> OrElse(attendee.email, <<>>),
     displayName |-> attendee.displayName.value,
     hasDisplayName |-> attendee.displayName.defined,
     isOrganizer |-> attendee.organizer.defined /\ attendee.organizer.value]

mapAttendees(attendees) ==
    IF ~attendees.defined THEN <<>>
    ELSE [i \in 1..Len(attendees.value) |-> MappedAttendee(attendees.value[i])]

\* event.summary?.trim() || FALLBACK_TITLE
MappedTitle(summary) ==
    IF summary.defined /\ Trim(summary.value) # <<>>
    THEN Trim(summary.value)
    ELSE EVENT_FALLBACK_TITLE

\* an all-day test that looks for the plain date
isAllDay_ByDate(start) == ~Falsy(start.date)

\* const isAllDay = !event.start.dateTime
isAllDay(start) == Falsy(start.dateTime)

\* the all-day branch
AllDayEvent(event, date) ==
    [id |-> event.id, title |-> MappedTitle(event.summary),
     date |-> date, startTime |-> <<>>, endTime |-> <<>>, startISO |-> date,
     isAllDay |-> TRUE, attendees |-> mapAttendees(Some(OrElse(event.attendees, <<>>))),
     organizerEmail |-> IF event.organizer.defined THEN event.organizer.value.email
                        ELSE undefined]

\* the timed branch
TimedEvent(event, startDateTime, endDateTime, offset) ==
    [id |-> event.id, title |-> MappedTitle(event.summary),
     date |-> formatDateLocal(NewDate(startDateTime), offset),
     startTime |-> formatTimeLocal(NewDate(startDateTime), offset),
     endTime |-> formatTimeLocal(NewDate(endDateTime), offset),
     startISO |-> startDateTime,
     isAllDay |-> FALSE, attendees |-> mapAttendees(Some(OrElse(event.attendees, <<>>))),
     organizerEmail |-> IF event.organizer.defined THEN event.organizer.value.email
                        ELSE undefined]

mapEvent(event, offset) ==
    IF isAllDay(event.start)
    THEN AllDayEvent(event, OrElse(event.start.date, <<>>))
    ELSE TimedEvent(event,
                    OrElse(event.start.dateTime, OrElse(event.start.date, <<>>)),
                    OrElse(event.end.dateTime, OrElse(event.end.date, <<>>)),
                    offset)

\* start.dateTime and end.dateTime: missing, empty, instants in UTC and with
\* an offset, one near midnight, and a text that is no instant
DateTimes ==
    {undefined, Some(<<>>), Some(<<"2","0","2","4","-","0","3","-","1","5","T","0","9",":","0","0",":","0","0","Z">>),
     Some(<<"2","0","2","4","-","0","2","-","2","9","T","2","3",":","3","0",":","0","0","Z">>), Some(<<"2","0","2","4","-","0","3","-","1","5","T","0","9",":","0","0",":","0","0","+","0","1",":","0","0">>),
     Some(<<"s","o","o","n">>)}

\* start.date and end.date
PlainDates == {undefined, Some(<<>>), Some(<<"2","0","2","4","-","0","3","-","1","5">>)}

Boundary(dateTime, date) == [dateTime |-> dateTime, date |-> date]

Summaries == {undefined, Some(<<>>), Some(<<" "," ">>), Some(<<" ","S","t","a","n","d","u","p"," ">>)}

GoogleAttendee(email, displayName, organizer) ==
    [email |-> email, displayName |-> displayName, organizer |-> organizer]

AttendeeArrays ==
    {undefined, Some(<<>>),
     Some(<<GoogleAttendee(Some(<<"a","l","@","x">>), Some(<<"A","l","i","c","e">>), Some(TRUE)),
            GoogleAttendee(undefined, undefined, undefined)>>)}

Organizers == {undefined, Some([email |-> undefined]), Some([email |-> Some(<<"a","l","@","x">>)])}

RawEvents ==
    {[id |-> <<"e","1">>, summary |-> summary, start |-> Boundary(startDateTime, startDate),
      end |-> Boundary(endDateTime, startDate), attendees |-> attendees,
      organizer |-> organizer] :
        summary \in Summaries, startDateTime \in DateTimes, startDate \in PlainDates,
        endDateTime \in {undefined, Some(<<"2","0","2","4","-","0","3","-","1","5","T","1","0",":","3","0",":","0","0","Z">>)},
        attendees \in AttendeeArrays, organizer \in Organizers}

InitMapper ==
    /\ WriterIdle
    /\ modal = NoModal
    /\ oauth = NoOAuth
    /\ fncall \in {FnCall("mapEvent", [event |-> event, offset |-> offset]) :
                       event \in RawEvents, offset \in LocalOffsets}

MapEventCall ==
    /\ fncall.fn = "mapEvent"
    /\ ~fncall.returned
    /\ Returns(mapEvent(fncall.arg.event, fncall.arg.offset))

NextMapper == MapEventCall

SpecMapper == InitMapper /\ [][NextMapper]_vars

(***************************************************************************)
(* OAuthService.  The token storage holds null or the tokens; the service  *)
(* holds its code verifier.  Time is counted in minutes.  One method runs  *)
(* at a time: an asynchronous method stands at its token request, then at  *)
(* its saveTokens, then has returned or thrown.  The body of a request is  *)
(* the list of its URLSearchParams.                                        *)
(***************************************************************************)
\* the last minute of the clock
MaxNow == 8

\* REFRESH_BUFFER_MS, in minutes
REFRESH_BUFFER == 5

REDIRECT_URI == <<"h","t","t","p",":","/","/","l","o","c","a","l","h","o","s","t",":","8","0","8","0","/","c","a","l","l","b","a","c","k">>

clientId == <<"t","e","s","t","-","c","l","i","e","n","t","-","i","d">>

clientSecret == <<"t","e","s","t","-","c","l","i","e","n","t","-","s","e","c","r","e","t">>

NullTokens == [stored |-> FALSE, accessToken |-> <<>>, refreshToken |-> <<>>, expiresAt |-> 0]

OAuthTokens(accessToken, refreshToken, expiresAt) ==
    [stored |-> TRUE, accessToken |-> accessToken, refreshToken |-> refreshToken,
     expiresAt |-> expiresAt]

NoVerifier == <<>>

\* what generateCodeVerifier can give
Verifiers == {<<"v","1">>, <<"v","2">>}

NoRequest == <<>>

NoResponse == [access_token |-> <<>>, refresh_token |-> undefined, expires_in |-> 0]

\* no method has been called yet
IdleCall ==
    [op |-> "none", pc |-> "idle", error |-> "", requests |-> 0, body |-> NoRequest,
     response |-> NoResponse, saves |-> 0, saved |-> NullTokens, result |-> NullTokens,
     before |-> NullTokens, at |-> 0]

\* a method begins: what it finds in the storage, and when
Begun(op, o) == [IdleCall EXCEPT !.op = op, !.before = o.tokens, !.at = o.now]

Thrown(call, error) == [call EXCEPT !.pc = "thrown", !.error = error]

Returned(call, result) == [call EXCEPT !.pc = "returned", !.result = result]

\* requestUrl is called and awaited
Requested(call, body) ==
    [call EXCEPT !.pc = "request", !.requests = call.requests + 1, !.body = body]

\* the tokens a storage can hold when the service is constructed
StoredTokens ==
    {NullTokens}
    \cup {OAuthTokens(accessToken, <<"r","t","0">>, expiresAt) :
             accessToken \in {<<"a","t","0">>, <<>>}, expiresAt \in {0, 6, 7, 20}}

InitOAuth ==
    /\ WriterIdle
    /\ fncall = NoFnCall
    /\ modal = NoModal
    /\ oauth \in {[tokens |-> tokens, codeVerifier |-> NoVerifier, authorizing |-> FALSE,
                   now |-> 0, call |-> IdleCall] : tokens \in StoredTokens}

OAuthStep(next) ==
    /\ oauth' = next
    /\ UNCHANGED <<writerVars, fncall, modal>>

\* no asynchronous method is under way
Settled == oauth.call.pc \in {"idle", "returned", "thrown"}

\* Date.now() moves on
Tick ==
    /\ oauth.now < MaxNow
    /\ OAuthStep([oauth EXCEPT !.now = oauth.now + 1])

getAuthorizationUrl ==
    /\ Settled
    /\ \E verifier \in Verifiers :
          OAuthStep([oauth EXCEPT !.codeVerifier = verifier, !.authorizing = TRUE,
                                  !.call = Returned(Begun("getAuthorizationUrl", oauth),
                                                    NullTokens)])

\* the parameters of the exchange request
ExchangeParams(code, codeVerifier) ==
    << <<"client_id", clientId>>, <<"client_secret", clientSecret>>, <<"code", code>>,
       <<"code_verifier", codeVerifier>>, <<"grant_type", <<"a","u","t","h","o","r","i","z","a","t","i","o","n","_","c","o","d","e">>>>,
       <<"redirect_uri", REDIRECT_URI>> >>

\* exchangeCodeForTokens up to its request
exchangeCodeForTokens ==
    /\ Settled
    /\ \E code \in {<<"t","e","s","t","-","a","u","t","h","-","c","o","d","e">>} :
          OAuthStep([oauth EXCEPT !.call =
              IF oauth.codeVerifier = NoVerifier
              THEN Thrown(Begun("exchangeCodeForTokens", oauth), "No code verifier available")
              ELSE Requested(Begun("exchangeCodeForTokens", oauth),
                             ExchangeParams(code, oauth.codeVerifier))])

\* the parameters of the refresh request
RefreshParams(refreshToken) ==
    << <<"client_id", clientId>>, <<"client_secret", clientSecret>>,
       <<"refresh_token", refreshToken>>, <<"grant_type", <<"r","e","f","r","e","s","h","_","t","o","k","e","n">>>> >>

\* a refresh test without the buffer
needsRefresh_NoBuffer(now, tokens) == now >= tokens.expiresAt

\* Date.now() >= (tokens.expiresAt - REFRESH_BUFFER_MS)
needsRefresh(now, tokens) == now >= tokens.expiresAt - REFRESH_BUFFER

\* getAccessToken up to its return or its request
getAccessToken ==
    /\ Settled
    /\ OAuthStep([oauth EXCEPT !.call =
          IF ~oauth.tokens.stored
          THEN Thrown(Begun("getAccessToken", oauth), "Not authenticated")
          ELSE IF needsRefresh(oauth.now, oauth.tokens)
          THEN Requested(Begun("getAccessToken", oauth),
                         RefreshParams(oauth.tokens.refreshToken))
          ELSE Returned(Begun("getAccessToken", oauth), oauth.tokens.accessToken)])

\* what the token endpoint can answer: to an exchange a refresh token comes
\* along, to a refresh it may come, be empty or be missing
TokenResponses(op) ==
    {[access_token |-> <<"a","t","1">>, refresh_token |-> refresh_token, expires_in |-> expires_in] :
        refresh_token \in IF op = "exchangeCodeForTokens" THEN {Some(<<"r","t","1">>)}
                          ELSE {Some(<<"r","t","1">>), Some(<<>>), undefined},
        expires_in \in {1, 10}}

\* the tokens made from a response: of an exchange, and of a refresh
\* (data.refresh_token || refreshToken)
TokensFrom(response, refreshToken, now) ==
    OAuthTokens(response.access_token, OrElse(response.refresh_token, refreshToken),
                now + response.expires_in)

\* storage.saveTokens(tokens) is called and awaited
Saving(o, response, tokens) ==
    [o EXCEPT !.tokens = tokens,
              !.call = [o.call EXCEPT !.pc = "save", !.response = response,
                                      !.saves = o.call.saves + 1, !.saved = tokens]]

\* the request resolves: the tokens are made and handed to the storage
TokenEndpointResponds ==
    /\ oauth.call.pc = "request"
    /\ \E response \in TokenResponses(oauth.call.op) :
          OAuthStep(Saving(oauth, response,
                           TokensFrom(response, oauth.call.before.refreshToken, oauth.now)))

\* the request rejects
TokenEndpointRejects ==
    /\ oauth.call.pc = "request"
    /\ OAuthStep([oauth EXCEPT !.call = Thrown(oauth.call, "request failed")])

\* saveTokens resolves: the exchange forgets its verifier; the method returns
SaveTokensResolves ==
    /\ oauth.call.pc = "save"
    /\ OAuthStep([oauth EXCEPT
          !.codeVerifier = IF oauth.call.op = "exchangeCodeForTokens" THEN NoVerifier
                           ELSE oauth.codeVerifier,
          !.call = Returned(oauth.call,
                            IF oauth.call.op = "exchangeCodeForTokens" THEN oauth.call.saved
                            ELSE oauth.call.saved.accessToken)])

\* saveTokens rejects
SaveTokensRejects ==
    /\ oauth.call.pc = "save"
    /\ OAuthStep([oauth EXCEPT !.call = Thrown(oauth.call, "save failed")])

\* disconnect: clearTokens
disconnect ==
    /\ Settled
    /\ oauth.tokens.stored
    /\ OAuthStep([oauth EXCEPT !.tokens = NullTokens,
                               !.call = Returned(Begun("disconnect", oauth), NullTokens)])

NextOAuth ==
    \/ Tick
    \/ getAuthorizationUrl
    \/ exchangeCodeForTokens
    \/ getAccessToken
    \/ TokenEndpointResponds
    \/ TokenEndpointRejects
    \/ SaveTokensResolves
    \/ SaveTokensRejects
    \/ disconnect

SpecOAuth == InitOAuth /\ [][NextOAuth]_vars
(***************************************************************************)
(* Properties                                                              *)
(***************************************************************************)
Identity(k) ==
    [ok |-> TRUE, calendarEventId |-> Events[k].id,
     calendarEventStart |-> Events[k].startISO]

\* the notes of a vault whose decoded identity is that of event k
NotesCarrying(v, k) ==
    {i \in 1..Len(v) : EndsWith(v[i].path, EXTENSION) /\ parse(v[i].content) = Identity(k)}

\* the event of the latest writeNote call, and the storage calls made for it
LastEvent == events[last.index]

CallsOf(k) == SelectSeq(calls, LAMBDA c : c.index = k)

BasePath(k) == FolderPath \o <<"/">> \o FilenameGenerate(Events[k].date, Events[k].title)

SuffixPath(k, n) ==
    FolderPath \o <<"/">> \o generateWithSuffix(Events[k].date, Events[k].title, n)

C2_SkipOnIdentityMatch ==
    (/\ last.index # 0
     /\ conflictPolicy = "skip"
     /\ NotesCarrying(last.before, LastEvent) # {})
    => /\ last.result.skipped /\ ~last.result.created
       /\ Includes(last.result.reason, <<"a","l","r","e","a","d","y"," ","e","x","i","s","t","s">>)
       /\ last.result.op = "none"
       /\ CallsOf(last.index) = <<>>
       /\ pc # "await"
       /\ vault = last.before

\* the skip on a note that was renamed: its name is not the generated one
C2_Witness ==
    /\ last.index # 0
    /\ conflictPolicy = "skip"
    /\ NotesCarrying(last.before, LastEvent) # {}
    /\ last.result.skipped
    /\ FolderPath \o <<"/">> \o last.result.filename # BasePath(LastEvent)

\* C3 as stated: in a run under skip that returned, of two events with equal
\* (id, startISO) the later one is skipped.
C3_LaterDuplicateSkipped ==
    (pc = "done" /\ conflictPolicy = "skip")
    => \A j, k \in 1..Len(events) :
          (j < k /\ Identity(events[j]) = Identity(events[k]))
          => k \in Range(order.skipped)

FirstNoteCarrying(v, k) == v[Min(NotesCarrying(v, k))].path

\* C5: under overwrite, when a note of the folder decodes to the event's
\* identity, writeNote regenerates the content and overwrites that file in
\* place: one modify call on its path, no create call, the same set of paths,
\* and the outcome is created under the name of that file.
C5_OverwriteInPlace ==
    (/\ last.index # 0
     /\ conflictPolicy = "overwrite"
     /\ NotesCarrying(last.before, LastEvent) # {})
    => /\ last.result.created /\ ~last.result.skipped
       /\ last.result.op = "modify"
       /\ last.result.path = FirstNoteCarrying(last.before, LastEvent)
       /\ FolderPath \o <<"/">> \o last.result.filename = last.result.path
       /\ last.result.content =
              generateContent(Events[LastEvent], Templates[template],
                              Frontmatter(Events[LastEvent]))
       /\ Paths(vault) = Paths(last.before)
       /\ pc = "await" => CallsOf(last.index) = <<>> /\ vault = last.before
       /\ pc # "await" =>
              /\ Len(CallsOf(last.index)) = 1
              /\ CallsOf(last.index)[1].op = "modify"
              /\ CallsOf(last.index)[1].path = last.result.path
       /\ pc \in {"loop", "done"} =>
              /\ created[Len(created)] = last.result.filename
              /\ \A i \in 1..Len(vault) :
                    vault[i] = IF vault[i].path = last.result.path
                               THEN [path |-> last.result.path,
                                     content |-> last.result.content]
                               ELSE last.before[i]

\* a renamed note was overwritten in place and its old content is gone
C5_Witness ==
    /\ last.index # 0
    /\ conflictPolicy = "overwrite"
    /\ NotesCarrying(last.before, LastEvent) # {}
    /\ pc = "loop"
    /\ last.result.path # BasePath(LastEvent)
    /\ read(vault, last.result.path) # read(last.before, last.result.path)
    /\ ~exists(vault, BasePath(LastEvent))

\* C6: under suffix, when the generated path is taken, writeNote creates the
\* note at the suffixed path with the least n >= 1 that is free, after at most
\* as many probes as the folder has files, and returns that suffixed name.
C6_LeastFreeSuffix ==
    (/\ last.index # 0
     /\ conflictPolicy = "suffix"
     /\ BasePath(LastEvent) \in Paths(last.before))
    => /\ last.result.op = "create" /\ last.result.created
       /\ \E n \in 1..Len(last.before) :
             /\ last.result.filename =
                    generateWithSuffix(Events[LastEvent].date, Events[LastEvent].title, n)
             /\ last.result.path = SuffixPath(LastEvent, n)
             /\ SuffixPath(LastEvent, n) \notin Paths(last.before)
             /\ \A m \in 1..(n - 1) : SuffixPath(LastEvent, m) \in Paths(last.before)

\* the probe went past an occupied (1) and the note is at (2)
C6_Witness ==
    /\ last.index # 0
    /\ conflictPolicy = "suffix"
    /\ SuffixPath(LastEvent, 1) \in Paths(last.before)
    /\ pc = "loop"
    /\ last.result.path = SuffixPath(LastEvent, 2)
    /\ exists(vault, SuffixPath(LastEvent, 2))

\* C7 as stated: under skip, two events of one run with the same id and
\* different startISO, written into a folder that was empty, each get a note.
C7_EachOccurrenceWritten ==
    (pc = "done" /\ conflictPolicy = "skip" /\ initial = <<>>)
    => \A j, k \in 1..Len(events) :
          (/\ Events[events[j]].id = Events[events[k]].id
           /\ Events[events[j]].startISO # Events[events[k]].startISO)
          => j \in Range(order.created) /\ k \in Range(order.created)

\* C8 as stated: the content writeNote passes to create or modify decodes to
\* the identity of its event.
C8_ContentCarriesIdentity ==
    pc = "await" => parse(pending.content) = Identity(events[index])

\* C9 as stated: after the storage rejected the call for an event, writeNotes
\* goes on with the loop.
C9_GoesOnAfterRejection ==
    (calls # <<>> /\ ~calls[Len(calls)].ok)
    => ENABLED (WriteNoteCall \/ WriteNotesReturn)

\* C9 (amended): a rejected create or modify ends the run at its event: the
\* rejection leaves writeNotes without a result, the events after it are
\* never processed, the folder is as the calls before it left it, and the
\* outcomes recorded so far are those of the events before it.
C9_RejectionAbortsRun ==
    (calls # <<>> /\ ~calls[Len(calls)].ok)
    => /\ pc = "rejected"
       /\ ~ENABLED Next
       /\ calls[Len(calls)].index = index /\ last.index = index
       /\ vault = last.before
       /\ \A c \in 1..(Len(calls) - 1) : calls[c].ok /\ calls[c].index < index
       /\ Range(order.created) \cup Range(order.skipped) = 1..(index - 1)

\* the first of two events was rejected and the second was never processed
C9_Witness ==
    /\ pc = "rejected"
    /\ index = 1
    /\ Len(events) = 2
    /\ created = <<>> /\ skipped = <<>>

\* C10: when writeNotes returns, every event has one entry, in created or in
\* skipped; each list is in the order of the events; every skipped entry has
\* a reason.
C10_OrderedPartition ==
    pc = "done"
    => /\ Len(created) + Len(skipped) = Len(events)
       /\ Len(order.created) = Len(created) /\ Len(order.skipped) = Len(skipped)
       /\ Range(order.created) \cup Range(order.skipped) = 1..Len(events)
       /\ Range(order.created) \cap Range(order.skipped) = {}
       /\ \A a, b \in 1..Len(created) : a < b => order.created[a] < order.created[b]
       /\ \A a, b \in 1..Len(skipped) : a < b => order.skipped[a] < order.skipped[b]
       /\ \A a \in 1..Len(skipped) : skipped[a].reason # <<>>
       /\ \A a \in 1..Len(created) : created[a] # <<>>

\* a run that returned one created and one skipped entry, the skipped event first
C10_Witness ==
    /\ pc = "done"
    /\ order.skipped = <<1>> /\ order.created = <<2>>

\* a storage write (create or modify) of writeNote has been issued and has
\* neither resolved nor rejected
InFlight == pending.op # "none"

\* C11: during a writeNotes run at most one storage write is in flight: a
\* write in flight is the one of the current event and the loop is suspended
\* on it, and the folder scan of an event begins only when no write is in
\* flight and every storage call made so far belongs to an earlier event.
C11_OneWriteInFlight ==
    [][/\ InFlight => (pc = "await" /\ pending = last.result /\ last.index = index)
       /\ (last' # last /\ last'.index # 0)
            => /\ ~InFlight
               /\ \A c \in 1..Len(calls) : calls[c].index < last'.index
               /\ last'.before = vault]_vars

\* the write of the second event is in flight after the write of the first
\* event resolved
C11_Witness ==
    /\ pc = "await" /\ InFlight
    /\ index = 2
    /\ Len(calls) = 1 /\ calls[1].index = 1 /\ calls[1].ok

\* the raw template text references an identity variable
ReferencesIdentity(t) ==
    \/ Includes(Templates[t], <<"{","{","c","a","l","e","n","d","a","r","E","v","e","n","t","I","d","}","}">>)
    \/ Includes(Templates[t], <<"{","{","c","a","l","e","n","d","a","r","E","v","e","n","t","S","t","a","r","t","}","}">>)

\* render(template, variables) for event k and template t
Rendered(k, t) ==
    render(Templates[t], Variables(Events[k], Frontmatter(Events[k])))

C13_RoundTrip ==
    (/\ fncall.fn = "parse" /\ fncall.origin # <<>>
     /\ Trim(fncall.origin.calendarEventId) = fncall.origin.calendarEventId
     /\ Trim(fncall.origin.calendarEventStart) = fncall.origin.calendarEventStart)
    => /\ fncall.ret.ok
       /\ fncall.ret.calendarEventId = fncall.origin.calendarEventId
       /\ fncall.ret.calendarEventStart = fncall.origin.calendarEventStart

\* C14: matches(noteText, identity) is TRUE exactly for the texts that begin
\* with a terminated block from which both fields decode to the target's
\* values; it is FALSE for a text without a block, with an unterminated
\* block, with a block missing a field and with a block one of whose fields
\* differs.
C14_MatchesIff ==
    (fncall.fn = "matches" /\ fncall.returned)
    => (fncall.ret <=> fncall.arg.kind = "exact")

\* a block whose start differs from the target's did not match
C14_Witness ==
    /\ fncall.fn = "matches" /\ fncall.returned
    /\ fncall.arg.kind = "field altered"
    /\ fncall.arg.content = generate([Target EXCEPT !.calendarEventStart = <<"2","0","2","4","-","0","3","-","1","5">>])
    /\ ~fncall.ret

\* the wiki link of an attendee
LinkOf(attendee) == <<"[","[">> \o getDisplayName(attendee) \o <<"]","]">>

\* C15 as stated: for any attendee list, no attendee flagged as organizer
\* contributes a label to the output of formatAttendees.
C15_OrganizerExcluded ==
    (fncall.fn = "formatAttendees" /\ fncall.returned)
    => \A i \in 1..Len(fncall.arg) :
          fncall.arg[i].isOrganizer => ~Includes(fncall.ret, LinkOf(fncall.arg[i]))

\* the emails, in lower case, of the attendees flagged as organizer
OrganizerEmails(attendees) ==
    {ToLowerCase(attendees[i].email) : i \in {j \in 1..Len(attendees) : attendees[j].isOrganizer}}

\* the first occurrences of the lowercase emails that are no organizer's
Survivors(attendees) ==
    {i \in 1..Len(attendees) :
        /\ ToLowerCase(attendees[i].email) \notin OrganizerEmails(attendees)
        /\ \A j \in 1..(i - 1) :
              ToLowerCase(attendees[j].email) # ToLowerCase(attendees[i].email)}

\* the links of the attendees at the indices of S, in index order, joined by ', '
RECURSIVE LinksOf(_, _)
LinksOf(attendees, S) ==
    IF S = {} THEN <<>>
    ELSE LinkOf(attendees[Min(S)])
         \o (IF S = {Min(S)} THEN <<>> ELSE <<","," ">>)
         \o LinksOf(attendees, S \ {Min(S)})

\* C20 as stated: the output of formatAttendees is the links of the first
\* occurrences of the distinct lowercase non-organizer emails, in the order
\* of those occurrences, joined by ', '; the empty string when there is none.
C20_FirstOccurrenceWins ==
    (fncall.fn = "formatAttendees" /\ fncall.returned)
    => fncall.ret = LinksOf(fncall.arg, Survivors(fncall.arg))

\* the value supplied for a name, the empty string for a name not supplied
Supplied(variables, name) ==
    IF \E k \in 1..Len(VariableNames) : VariableNames[k] = name
    THEN variables[CHOOSE k \in 1..Len(VariableNames) : VariableNames[k] = name]
    ELSE <<>>

\* C17 as stated: render replaces every placeholder by the value of its
\* variable when the name is supplied and by the empty string when it is
\* not, and passes the text outside placeholders through unchanged.
C17_RenderSubstitutes ==
    (fncall.fn = "render" /\ fncall.returned)
    => fncall.ret =
          Concat([i \in 1..Len(fncall.arg.parts) |->
                     IF fncall.arg.parts[i].kind = "text" THEN fncall.arg.parts[i].text
                     ELSE Supplied(fncall.arg.variables, fncall.arg.parts[i].text)])

\* the name is the prefix, the first `kept` characters of the title and the
\* extension; the title is whole, or the name is exactly 255 long
TitleOnlyShortened(name, prefix, finalTitle, kept) ==
    /\ kept \in 0..Len(finalTitle)
    /\ name = prefix \o SubSeq(finalTitle, 1, kept) \o <<".","m","d">>
    /\ kept = Len(finalTitle) \/ Len(name) = 255

FilenameFits(name, date, title) ==
    /\ Len(name) <= 255
    /\ StartsWith(name, date \o <<" ","-"," ">>)
    /\ EndsWith(name, <<".","m","d">>)
    /\ TitleOnlyShortened(name, date \o <<" ","-"," ">>, FinalTitle(title),
                          Len(name) - Len(date) - 6)

\* C18 (as stated): for every date and title, generate(date, title) is at
\* most 255 long, starts with '<date> - ' and ends with '.md', and only the
\* title is shortened when the whole composition would be longer.
C18_FilenameFits ==
    (fncall.fn = "generate" /\ fncall.returned)
    => FilenameFits(fncall.ret, fncall.arg.date, fncall.arg.title)

\* C18 (amended): for every date of at most 249 characters and every title,
\* generate(date, title) is at most 255 long, starts with '<date> - ' and
\* ends with '.md'; between the two is the title (sanitized, or the
\* fallback), whole when the name fits and otherwise cut at its end by just
\* as much as makes the name 255 long.
C18_FilenameFitsDateWithinBudget ==
    (/\ fncall.fn = "generate" /\ fncall.returned
     /\ Len(fncall.arg.date) <= LongestFittingDate)
    => FilenameFits(fncall.ret, fncall.arg.date, fncall.arg.title)

\* a title one character too long was cut and the name is 255 long
C18_Witness ==
    /\ fncall.fn = "generate" /\ fncall.returned
    /\ fncall.arg.date = <<"2","0","2","4","-","0","3","-","1","5">>
    /\ Len(FinalTitle(fncall.arg.title)) = 240
    /\ Len(fncall.ret) = 255
    /\ EndsWith(fncall.ret, <<"a",".","m","d">>)


\* the notices of generateNotes for a missing template path or file
ConfigNotices ==
    {"Please configure a template note path in settings", "Template file not found"}

\* C16: a click on "Generate notes" while no template path is configured or
\* no file exists at it shows a notice and ends there: no read of the
\* template is started, writeNotes is not invoked and no storage call is
\* made; and openCalendarModal opens the modal only when the plugin is
\* authenticated and a template path is configured.
C16_ConfigErrorsBlock ==
    [][/\ (/\ modal'.clicks = modal.clicks + 1
           /\ modal.templateNotePath = "" \/ ~modal.templateExists)
          => /\ modal'.handler = "generateNotes"
             /\ modal'.notice \in ConfigNotices \cup {"No events selected"}
             /\ SelectedEvents(modal) # <<>> => modal'.notice \in ConfigNotices
             /\ modal'.reading = modal.reading
             /\ modal'.writing = modal.writing
             /\ modal'.writeNotesCalls = modal.writeNotesCalls
             /\ modal'.disabled = modal.disabled
             /\ calls' = calls /\ vault' = vault
       /\ (modal.stage = "closed" /\ modal'.stage = "open")
          => modal.authenticated /\ modal.templateNotePath # ""
       /\ (/\ modal'.handler = "openCalendarModal"
           /\ ~modal.authenticated \/ modal.templateNotePath = "")
          => /\ modal'.stage = "closed"
             /\ modal'.notice \in {"Please connect to calendar in settings first",
                                   "Please configure a template note path in settings first"}
             /\ modal'.writeNotesCalls = modal.writeNotesCalls
      ]_vars

\* the template file went away while the modal was open with an event
\* selected; the click ended with the notice and writeNotes was never invoked
C16_Witness ==
    /\ modal.stage = "open"
    /\ modal.handler = "generateNotes"
    /\ modal.notice = "Template file not found"
    /\ modal.templateNotePath # "" /\ ~modal.templateExists
    /\ modal.selectedEventIds # {}
    /\ modal.writeNotesCalls = 0 /\ modal.reading = 0

\* C19: mapEvent returns for every raw event; the event is all-day exactly
\* when start.dateTime is missing or empty; a timed event's startISO is
\* start.dateTime as it came, whether or not it reads as an instant; an
\* all-day event's startISO is start.date as it came, '' when there is
\* none, and its startTime and endTime are ''.
C19_MapEventTotal ==
    (fncall.fn = "mapEvent" /\ fncall.returned)
    => /\ fncall.ret.isAllDay = Falsy(fncall.arg.event.start.dateTime)
       /\ ~fncall.ret.isAllDay
             => fncall.ret.startISO = fncall.arg.event.start.dateTime.value
       /\ fncall.ret.isAllDay
             => /\ fncall.ret.startISO =
                      (IF fncall.arg.event.start.date.defined
                       THEN fncall.arg.event.start.date.value ELSE <<>>)
                /\ fncall.ret.startTime = <<>>
                /\ fncall.ret.endTime = <<>>

\* a timed event whose start is no instant: mapped, with its text kept
C19_Witness ==
    /\ fncall.fn = "mapEvent" /\ fncall.returned
    /\ fncall.arg.event.start.dateTime = Some(<<"s","o","o","n">>)
    /\ fncall.arg.event.start.date = Some(<<"2","0","2","4","-","0","3","-","1","5">>)
    /\ ~fncall.ret.isAllDay
    /\ fncall.ret.startISO = <<"s","o","o","n">>
    /\ fncall.ret.date = <<"N","a","N","-","N","a","N","-","N","a","N">>

\* the part of the email before its first '@', the whole email without one
LocalPart(email) ==
    IF IndexOf(email, <<"@">>) = 0 THEN email
    ELSE SubSeq(email, 1, IndexOf(email, <<"@">>) - 1)

\* C21: the label of an attendee is the display name with the whitespace
\* around it removed when something is left of it, otherwise the part of the
\* email before its first '@', or the whole email when it has no '@'.
C21_DisplayLabel ==
    (fncall.fn = "getDisplayName" /\ fncall.returned)
    => fncall.ret =
          (IF fncall.arg.hasDisplayName /\ Trim(fncall.arg.displayName) # <<>>
           THEN Trim(fncall.arg.displayName)
           ELSE LocalPart(fncall.arg.email))

\* no illegal character, no two whitespace characters in a row, no
\* whitespace at either end
Sanitized(s) ==
    /\ \A i \in 1..Len(s) : s[i] \notin ILLEGAL_CHARS
    /\ \A i \in 1..(Len(s) - 1) : ~(s[i] \in WhiteSpace /\ s[i + 1] \in WhiteSpace)
    /\ s # <<>> => (s[1] \notin WhiteSpace /\ s[Len(s)] \notin WhiteSpace)

\* C22: what sanitize returns holds none of / \ : * ? " < > |, no run of two
\* or more whitespace characters and no whitespace at its ends, and sanitize
\* returns it unchanged when given it again.
C22_SanitizeIdempotent ==
    /\ (fncall.fn = "sanitize" /\ fncall.returned) => Sanitized(fncall.ret)
    /\ fncall.fn = "sanitize again"
          => /\ fncall.arg = sanitize(fncall.origin)
             /\ fncall.ret = fncall.arg

\* an input whose illegal character stands between two blanks at its end:
\* sanitized to the letter alone, and again to the same
C22_Witness ==
    /\ fncall.fn = "sanitize again"
    /\ fncall.origin = <<"\t", "a", " ", "?">>
    /\ fncall.arg = <<"a">>
    /\ fncall.ret = <<"a">>

\* the names of the parameters of a request body
ParamNames(body) == {body[i][1] : i \in 1..Len(body)}

\* C23: exchangeCodeForTokens on a service on which getAuthorizationUrl was
\* never called does not fail for want of a code verifier: it sends one
\* token request with client_id, client_secret, code, grant_type and
\* redirect_uri and without code_verifier, and when it returns it has saved
\* the tokens once and returns them.
C23_ExchangeOnFreshService ==
    (oauth.call.op = "exchangeCodeForTokens" /\ ~oauth.authorizing)
    => /\ oauth.call.error # "No code verifier available"
       /\ oauth.call.requests = 1
       /\ ParamNames(oauth.call.body) =
             {"client_id", "client_secret", "code", "grant_type", "redirect_uri"}
       /\ oauth.call.pc = "returned"
             => oauth.call.saves = 1 /\ oauth.call.result = oauth.call.saved

\* the refresh token the refreshed tokens must carry
KeptRefreshToken(response, previous) ==
    IF response.refresh_token.defined /\ response.refresh_token.value # <<>>
    THEN response.refresh_token.value
    ELSE previous

\* C24: getAccessToken throws when the storage holds no tokens; it returns
\* the stored access token without a request exactly when the call began
\* more than five minutes before expiresAt; in every other case it sends one
\* refresh request, and when it returns the refreshed tokens are in the
\* storage, saved once, the new access token is returned, and the saved
\* refresh token is the response's when it has one, else the previous one.
C24_GetAccessToken ==
    oauth.call.op = "getAccessToken"
    => /\ ~oauth.call.before.stored
             => (oauth.call.pc = "thrown" /\ oauth.call.requests = 0
                 /\ oauth.call.saves = 0)
       /\ oauth.call.before.stored
             => /\ (oauth.call.at < oauth.call.before.expiresAt - 5)
                      <=> (/\ oauth.call.pc = "returned"
                           /\ oauth.call.requests = 0
                           /\ oauth.call.result = oauth.call.before.accessToken)
                /\ ~(oauth.call.at < oauth.call.before.expiresAt - 5)
                      => /\ oauth.call.requests = 1
                         /\ <<"grant_type", <<"r","e","f","r","e","s","h","_","t","o","k","e","n">>>> \in
                               {oauth.call.body[i] : i \in 1..Len(oauth.call.body)}
                         /\ oauth.call.pc = "returned"
                               => /\ oauth.call.saves = 1
                                  /\ oauth.tokens = oauth.call.saved
                                  /\ oauth.call.saved.accessToken = oauth.call.response.access_token
                                  /\ oauth.call.result = oauth.call.response.access_token
                                  /\ oauth.call.saved.refreshToken =
                                        KeptRefreshToken(oauth.call.response,
                                                         oauth.call.before.refreshToken)

\* a refresh exactly five minutes before expiry, answered without a refresh
\* token: the new access token is returned and the old refresh token kept
C24_Witness ==
    /\ oauth.call.op = "getAccessToken"
    /\ oauth.call.pc = "returned"
    /\ oauth.call.at = oauth.call.before.expiresAt - 5
    /\ oauth.call.requests = 1
    /\ ~oauth.call.response.refresh_token.defined
    /\ oauth.call.result = <<"a","t","1">>
    /\ oauth.tokens.refreshToken = <<"r","t","0">>

\* the identity a file's content decodes to is that of event k
HasIdentityOf(content, k) ==
    /\ parse(content).ok
    /\ parse(content).calendarEventId = Events[k].id
    /\ parse(content).calendarEventStart = Events[k].startISO

\* the positions of the files of before whose content differs in after
ChangedFiles(before, after) ==
    {k \in 1..Len(before) : k > Len(after) \/ after[k] # before[k]}

\* C25: under overwrite, the file a writeNote call changes carried, before
\* the call, the identity of the call's own event or no identity at all.
C25_OverwriteSparesOtherEvents ==
    (last.index # 0 /\ conflictPolicy = "overwrite")
    => \A k \in ChangedFiles(last.before, vault) :
          \/ ~parse(last.before[k].content).ok
          \/ HasIdentityOf(last.before[k].content, LastEvent)

\* C26: every create is called on a path that does not exist at the moment
\* of the call and every modify on a path that exists, under every policy
\* and in every folder, as long as the storage calls themselves succeed.
C26_StoragePreconditions ==
    /\ pc = "await"
         => /\ pending.op \in {"create", "modify"}
            /\ pending.op = "create" => ~exists(vault, pending.path)
            /\ pending.op = "modify" => exists(vault, pending.path)
    /\ \A c \in 1..Len(calls) :
          calls[c].op = "create" => \A d \in 1..(c - 1) :
                                       calls[d].ok => calls[d].path # calls[c].path

\* one run in which a note was overwritten and another one created
C26_Witness ==
    /\ pc = "done"
    /\ Len(calls) = 2
    /\ calls[1].op = "modify" /\ calls[1].ok
    /\ calls[2].op = "create" /\ calls[2].ok
    /\ Len(vault) = Len(initial) + 1

\* C28: a writeNote call that returns skipped has made no storage call and
\* left the folder as it was; one that returns created has made one storage
\* call, a create or a modify; its result has exactly one of created and
\* skipped.
C28_OneWritePerCall ==
    last.index # 0
    => /\ last.result.created # last.result.skipped
       /\ last.result.skipped
             => /\ last.result.op = "none"
                /\ CallsOf(last.index) = <<>>
                /\ vault = last.before
       /\ last.result.created
             => /\ last.result.op \in {"create", "modify"}
                /\ Len(CallsOf(last.index)) = (IF pc = "await" THEN 0 ELSE 1)
                /\ \A c \in 1..Len(CallsOf(last.index)) :
                      /\ CallsOf(last.index)[c].op = last.result.op
                      /\ CallsOf(last.index)[c].path = last.result.path
                /\ Cardinality(ChangedFiles(last.before, vault))
                     + (Len(vault) - Len(last.before)) <= 1
       /\ Len(vault) >= Len(last.before)

\* a run of two events, one skipped without a call, one created by one call
C28_Witness ==
    /\ pc = "done"
    /\ conflictPolicy = "skip"
    /\ Len(created) = 1 /\ Len(skipped) = 1
    /\ Len(calls) = 1 /\ calls[1].op = "create"
    /\ Len(vault) = Len(initial) + 1

\* C29: under skip and under suffix no modify is called: the files the
\* folder held when the run began are all there with their content, and
\* what was added lies at paths that were free.
C29_SkipAndSuffixOnlyAdd ==
    conflictPolicy \in {"skip", "suffix"}
    => /\ pending.op # "modify"
       /\ \A c \in 1..Len(calls) : calls[c].op = "create"
       /\ Len(vault) >= Len(initial)
       /\ SubSeq(vault, 1, Len(initial)) = initial
       /\ \A k \in (Len(initial) + 1)..Len(vault) :
             /\ vault[k].path \notin Paths(initial)
             /\ \A j \in 1..(k - 1) : vault[j].path # vault[k].path

\* under suffix a note of the same event was there and another was added
C29_Witness ==
    /\ pc = "done"
    /\ conflictPolicy = "suffix"
    /\ events # <<>>
    /\ NotesCarrying(initial, events[1]) # {}
    /\ Len(vault) > Len(initial)
    /\ SubSeq(vault, 1, Len(initial)) = initial

\* C27: while a generateNotes run is under way the Generate button is
\* disabled and no other run is under way, whatever the user does with
\* the checkboxes, the labels, "Select all", "Select none" and the fetch.
C27_ButtonDisabledInFlight ==
    modal.reading + modal.writing > 0
    => modal.disabled /\ modal.reading + modal.writing = 1

\* C30: the events a run passes to writeNotes are those of the rows whose
\* boxes are checked when "Generate notes" is clicked, also when two rows
\* share an event id; the selected ids are ids of fetched events, and a
\* fetch leaves nothing selected.
C30_CheckedRowsProcessed ==
    /\ (modal.handler = "generateNotes" /\ GenerateRefusal(modal) = "")
          => modal.selectedRows = modal.checked
    /\ modal.stage = "open" => modal.selectedEventIds \subseteq EventIds(modal)
    /\ modal.handler = "fetchEvents"
          => modal.selectedEventIds = {} /\ modal.checked = {}

\* C30 for lists in which no two rows share an id
C30_DistinctIdsProcessed ==
    Cardinality(EventIds(modal)) = Len(modal.events) => C30_CheckedRowsProcessed
====
